---- MODULE Spec2Model ----
(***************************************************************************)
(* Model of the per-instrument inactivity engine of the market-data       *)
(* dashboard (hook useInactivityAlerts) together with the environment it  *)
(* reacts to: the tick array handed to the hook, the wall clock, the      *)
(* market-open answer of the session oracle and the JavaScript timers.    *)
(* Further parts, each with a specification of its own: the alert         *)
(* settings dialog (SpecDialog), a long run of alerts (SpecLog), the two  *)
(* feed connectors useTickData and useUpstoxTickData (SpecFeed) and the   *)
(* session oracle getCurrentMarketStatus (SpecOracle).                    *)
(*                                                                         *)
(* Prices and deviations are integers (one unit = one price step), times  *)
(* are milliseconds.  Monitor objects live in a heap (objs) because the   *)
(* timer callbacks capture the monitor by reference.  The alert sound     *)
(* (oscillator / gain node) and desktop notifications are left out.       *)
(***************************************************************************)
EXTENDS Integers, Sequences, FiniteSets, TLC

\* ---- bounds of the model ------------------------------------------------
MaxSteps == 6
MaxStepsPair == 4
MaxTicksStored == 2
MaxLogSteps == 306
MaxDialogSteps == 7
MaxFeedSteps == 7
MaxBatchSteps == 3
MaxBatch == 2
MaxDay == 6
MaxPageSteps == 5
MaxHistorySteps == 212
MaxClosureSteps == 7
MaxAlertLogSteps == 52

\* ---- input domains --------------------------------------------------------
Tokens == {1, 2}
Prices == {10, 11, 12}
Deviations == {1}
Durations == {20}
TimeSteps == {10000, 20000, 61000}

\* ---- program constants ----------------------------------------------------
MARKET_CHECK_INTERVAL == 60000
HISTORY_RETENTION == 300000
HISTORY_CAP == 100
ALERTS_CAP == 100

VARIABLES
  instruments,      \* the instruments the feed delivers ticks for
  ticks,            \* the ticks array passed to the hook, newest first
  configurations,   \* Map token -> InactivityAlertConfig
  alerts,           \* InactivityAlert log, newest first
  inactiveSymbols,  \* Set of tokens
  symbolStates,     \* Map token -> monitor object (its heap address)
  objs,             \* heap of SymbolState objects
  timers,           \* pending setTimeout callbacks with their captured values
  marketOpen,       \* answer of shouldAlertsBeActive per instrument, right now
  now,              \* Date.now()
  nextTimerId,      \* next handle returned by setTimeout
  nextSid,          \* next heap address
  arms,             \* history: every timer ever armed
  superseded,       \* history: un-fired timers overtaken by an evaluation
  alerted,          \* history: timers whose callback recorded an alert
  alertsSinceArm,   \* history: alerts recorded since the last (re-)arm
  seen,             \* history: prices evaluated since the last (re-)arm
  sawClosed,        \* history: the monitor has observed the market closed
  reopened,         \* history: first evaluation after the market reopened
  lastMove,         \* history: time of the last movement tick per token
  branch,           \* history: branch the last evaluation took per token
  last,             \* history: the last operation
  steps,            \* number of operations so far
  limit,            \* number of operations a run is followed for
  recorded,         \* history: timers that recorded an alert since the last clear
  dialog,           \* SymbolAlertSettingsDialog: isOpen, localConfig
  kind,             \* which feed hook the run is about
  mounted,          \* the feed hook's cleanup has not run yet
  es,               \* heap of EventSource objects: their readyState
  conn,             \* the feed hook's state and refs
  lastTickTimestamps, \* Map token -> timestamp of its last tick
  feedTicks,        \* the feed hook's ticks, newest first
  feedAlerts,       \* the feed hook's alerts, newest first
  feedTimers,       \* pending setTimeout callbacks of the feed hook
  failures,         \* history: failed attempts since the last successful open
  late,             \* history: callbacks that acted after the cleanup
  lastBatch,        \* history: the last message handled and what it led to
  clock,            \* the instant and the host's time zone of a status query
  status,           \* result of the last getCurrentMarketStatus call
  asked,            \* the arguments of a call of one of the oracle's functions
  inRange,          \* result of the last isTimeInRange call
  snapshot          \* history: the page's state before its last operation

feedVars == <<kind, mounted, es, conn, lastTickTimestamps, feedTicks,
              feedAlerts, feedTimers, failures, late, lastBatch>>

oracleVars == <<clock, status, asked, inRange>>

vars == <<instruments, ticks, configurations, alerts, inactiveSymbols, symbolStates, objs,
          timers, marketOpen, now, nextTimerId, nextSid, arms, superseded,
          alerted, alertsSinceArm, seen, sawClosed, reopened, lastMove,
          branch, last, steps, limit, recorded, dialog, feedVars, oracleVars,
          snapshot>>

\* ---- Map helpers ----------------------------------------------------------
Put(f, k, v) == [x \in (DOMAIN f) \cup {k} |-> IF x = k THEN v ELSE f[x]]

Remove(f, k) == [x \in (DOMAIN f) \ {k} |-> f[x]]

Min2(a, b) == IF a < b THEN a ELSE b

Abs(x) == IF x < 0 THEN -x ELSE x

Take(s, n) == SubSeq(s, 1, Min2(Len(s), n))

TakeLast(s, n) == SubSeq(s, Len(s) - Min2(Len(s), n) + 1, Len(s))

FilterSeq(s, keepAfter) == SelectSeq(s, LAMBDA h : h.timestamp > keepAfter)

MinPrice(h) == CHOOSE p \in {h[i].price : i \in DOMAIN h} :
                 \A q \in {h[i].price : i \in DOMAIN h} : p <= q

MaxPrice(h) == CHOOSE p \in {h[i].price : i \in DOMAIN h} :
                 \A q \in {h[i].price : i \in DOMAIN h} : p >= q

\* ---- the mutable world the hook's callbacks work on -----------------------
World ==
  [objs |-> objs, symbolStates |-> symbolStates, timers |-> timers,
   alerts |-> alerts, inactiveSymbols |-> inactiveSymbols,
   nextTimerId |-> nextTimerId, nextSid |-> nextSid, arms |-> arms,
   superseded |-> superseded, alerted |-> alerted,
   alertsSinceArm |-> alertsSinceArm, seen |-> seen, sawClosed |-> sawClosed,
   reopened |-> reopened, lastMove |-> lastMove, branch |-> branch]

Commit(W) ==
  /\ objs' = W.objs
  /\ symbolStates' = W.symbolStates
  /\ timers' = W.timers
  /\ alerts' = W.alerts
  /\ inactiveSymbols' = W.inactiveSymbols
  /\ nextTimerId' = W.nextTimerId
  /\ nextSid' = W.nextSid
  /\ arms' = W.arms
  /\ superseded' = W.superseded
  /\ alerted' = W.alerted
  /\ alertsSinceArm' = W.alertsSinceArm
  /\ seen' = W.seen
  /\ sawClosed' = W.sawClosed
  /\ reopened' = W.reopened
  /\ lastMove' = W.lastMove
  /\ branch' = W.branch

\* Objects no longer reachable from the map or from a pending callback.
Collect(W) ==
  LET live == {W.symbolStates[k] : k \in DOMAIN W.symbolStates}
                \cup {t.sid : t \in W.timers}
  IN [W EXCEPT !.objs = [s \in (DOMAIN W.objs) \cap live |-> W.objs[s]]]

\* shouldAlertsBeActive(getInstrumentName(tick)): the oracle's answer now.
shouldAlertsBeActive(tok) == marketOpen[tok]

\* clearTimeout(id): a pending callback is dropped, a fired one is untouched.
clearTimeout(W, id) == [W EXCEPT !.timers = {t \in W.timers : t.id # id}]

\* History only: the monitor of tok holds a timer that has not alerted and
\* the evaluation in progress overtakes it.
Supersede(W, tok, why) ==
  IF tok \in DOMAIN W.symbolStates
  THEN LET id == W.objs[W.symbolStates[tok]].timerId
       IN IF id # 0 /\ id \notin W.alerted
          THEN [W EXCEPT !.superseded =
                           W.superseded \cup {[id |-> id, why |-> why, at |-> now]}]
          ELSE W
  ELSE W

\* Mutation: the alert log is no longer cut to its cap.
triggerAlert_NoCap(W, t) ==
  LET tick == t.tick
      config == t.config
      tok == tick.instrument_token
      state == W.objs[t.sid]
      newAlert == [instrumentToken |-> tok,
                   timestamp |-> now,
                   duration |-> config.duration,
                   deviation |-> config.deviation,
                   baselinePrice |-> state.baselinePrice,
                   currentPrice |-> tick.last_price,
                   priceRange |-> [min |-> MinPrice(state.priceHistory),
                                   max |-> MaxPrice(state.priceHistory)],
                   timerId |-> t.id,
                   marketOpen |-> marketOpen[tok],
                   seen |-> W.seen[tok],
                   lastMoveAt |-> W.lastMove[tok]]
  IN [W EXCEPT !.alerts = <<newAlert>> \o W.alerts,
               !.inactiveSymbols = W.inactiveSymbols \cup {tok},
               !.alerted = W.alerted \cup {t.id},
               !.alertsSinceArm[tok] = W.alertsSinceArm[tok] + 1]

\* t is the timer whose callback calls triggerAlert; its captured tick and
\* config are the arguments of the call.
triggerAlert(W, t) ==
  LET tick == t.tick
      config == t.config
      tok == tick.instrument_token
      state == W.objs[t.sid]
      newAlert == [instrumentToken |-> tok,
                   timestamp |-> now,
                   duration |-> config.duration,
                   deviation |-> config.deviation,
                   baselinePrice |-> state.baselinePrice,
                   currentPrice |-> tick.last_price,
                   priceRange |-> [min |-> MinPrice(state.priceHistory),
                                   max |-> MaxPrice(state.priceHistory)],
                   \* history fields
                   timerId |-> t.id,
                   marketOpen |-> marketOpen[tok],
                   seen |-> W.seen[tok],
                   lastMoveAt |-> W.lastMove[tok]]
  IN [W EXCEPT !.alerts = Take(<<newAlert>> \o W.alerts, ALERTS_CAP),
               !.inactiveSymbols = W.inactiveSymbols \cup {tok},
               !.alerted = W.alerted \cup {t.id},
               !.alertsSinceArm[tok] = W.alertsSinceArm[tok] + 1]

\* Mutation: the pending timer is not cleared before a new one is started.
resetInactivityTimer_NoClear(W, tick, config, sid) ==
  LET tid == W.nextTimerId
      timer == [id |-> tid, tick |-> tick, config |-> config, sid |-> sid,
                armedAt |-> now, expiry |-> now + config.duration * 1000]
  IN [W EXCEPT !.objs[sid].priceHistory =
                   <<[price |-> tick.last_price, timestamp |-> now]>>,
               !.objs[sid].timerId = tid,
               !.timers = W.timers \cup {timer},
               !.nextTimerId = tid + 1,
               !.arms = W.arms \cup {timer},
               !.alertsSinceArm[tick.instrument_token] = 0]

resetInactivityTimer(W, tick, config, sid) ==
  LET state == W.objs[sid]
      W1 == IF state.timerId # 0 THEN clearTimeout(W, state.timerId) ELSE W
      tid == W1.nextTimerId
      timer == [id |-> tid, tick |-> tick, config |-> config, sid |-> sid,
                armedAt |-> now, expiry |-> now + config.duration * 1000]
  IN [W1 EXCEPT !.objs[sid].priceHistory =
                    <<[price |-> tick.last_price, timestamp |-> now]>>,
                !.objs[sid].timerId = tid,
                !.timers = W1.timers \cup {timer},
                !.nextTimerId = tid + 1,
                !.arms = W1.arms \cup {timer},
                !.alertsSinceArm[tick.instrument_token] = 0]

\* Mutation: the monitor is deleted but its pending timer is left running.
clearSymbolState_KeepTimer(W, token) ==
  Collect([W EXCEPT !.symbolStates = Remove(W.symbolStates, token),
                    !.inactiveSymbols = W.inactiveSymbols \ {token},
                    !.sawClosed[token] = FALSE])

\* Mutation: the monitor is deleted but the instrument stays marked inactive.
clearSymbolState_KeepInactive(W, token) ==
  LET has == token \in DOMAIN W.symbolStates
      W1 == IF has /\ W.objs[W.symbolStates[token]].timerId # 0
            THEN clearTimeout(W, W.objs[W.symbolStates[token]].timerId)
            ELSE W
  IN Collect([W1 EXCEPT !.symbolStates = Remove(W1.symbolStates, token),
                        !.sawClosed[token] = FALSE])

clearSymbolState(W, token) ==
  LET has == token \in DOMAIN W.symbolStates
      W1 == IF has /\ W.objs[W.symbolStates[token]].timerId # 0
            THEN clearTimeout(W, W.objs[W.symbolStates[token]].timerId)
            ELSE W
  IN Collect([W1 EXCEPT !.symbolStates = Remove(W1.symbolStates, token),
                        !.inactiveSymbols = W1.inactiveSymbols \ {token},
                        !.sawClosed[token] = FALSE])

\* ---- the tick effect ------------------------------------------------------
\* latestTicks: one tick per token, the latest by receivedAt; a Map keeps the
\* keys in the order of their first insertion.
RECURSIVE LatestFold(_, _, _)
LatestFold(ts, i, m) ==
  IF i > Len(ts) THEN m
  ELSE LET t == ts[i]
           k == t.instrument_token
       IN IF k \notin DOMAIN m.val
          THEN LatestFold(ts, i + 1, [val |-> Put(m.val, k, t),
                                      order |-> Append(m.order, k)])
          ELSE IF t.receivedAt > m.val[k].receivedAt
               THEN LatestFold(ts, i + 1, [m EXCEPT !.val[k] = t])
               ELSE LatestFold(ts, i + 1, m)

latestTicks(ts) == LatestFold(ts, 1, [val |-> << >>, order |-> << >>])

\* No monitor yet: create it and arm it when alerts should be active.
CreateState(W, tick, config, shouldAlert) ==
  LET tok == tick.instrument_token
      sid == W.nextSid
      state == [baselinePrice |-> tick.last_price,
                timerId |-> 0,
                priceHistory |-> <<[price |-> tick.last_price,
                                    timestamp |-> now]>>,
                lastMarketStatusCheck |-> now,
                wasMarketOpen |-> shouldAlert,
                born |-> steps]
      W1 == [W EXCEPT !.objs = Put(W.objs, sid, state),
                      !.symbolStates = Put(W.symbolStates, tok, sid),
                      !.nextSid = sid + 1]
  IN IF shouldAlert THEN resetInactivityTimer(W1, tick, config, sid) ELSE W1

\* Status re-check found the market open again: reset monitoring.
MarketJustOpened(W, tick, config, sid) ==
  LET W1 == [W EXCEPT !.objs[sid].baselinePrice = tick.last_price]
      W2 == resetInactivityTimer(W1, tick, config, sid)
  IN [W2 EXCEPT !.inactiveSymbols = W2.inactiveSymbols \ {tick.instrument_token}]

\* Status re-check found the market closed: clear the timer, keep the state.
MarketJustClosed(W, sid) ==
  IF W.objs[sid].timerId # 0
  THEN [clearTimeout(W, W.objs[sid].timerId) EXCEPT !.objs[sid].timerId = 0]
  ELSE W

\* Mutation: the closed market no longer cancels the pending timer.
MarketClosedSkip_KeepTimer(W, sid) == W

\* Market closed and hours respected: cancel any timer, do nothing else.
MarketClosedSkip(W, sid) ==
  IF W.objs[sid].timerId # 0
  THEN [clearTimeout(W, W.objs[sid].timerId) EXCEPT !.objs[sid].timerId = 0]
  ELSE W

\* Mutation: the history is trimmed by age only, its length is not capped.
TrimHistory_NoCap(h) == FilterSeq(h, now - HISTORY_RETENTION)

\* Keep only recent history: the last 5 minutes, the last 100 entries of them.
TrimHistory(h) == TakeLast(FilterSeq(h, now - HISTORY_RETENTION), HISTORY_CAP)

\* Mutation: a movement re-arms the timer but keeps the old baseline.
MonitorTick_KeepBaseline(W, tick, config, sid) ==
  LET tok == tick.instrument_token
      state == W.objs[sid]
      pushed == Append(state.priceHistory,
                       [price |-> tick.last_price, timestamp |-> now])
      kept == TrimHistory(pushed)
      W1 == [W EXCEPT !.objs[sid].priceHistory = kept]
      priceMoved == Abs(tick.last_price - state.baselinePrice) > config.deviation
  IN IF priceMoved
     THEN LET W3 == resetInactivityTimer(W1, tick, config, sid)
          IN [W3 EXCEPT !.inactiveSymbols = W3.inactiveSymbols \ {tok},
                        !.lastMove[tok] = now]
     ELSE W1

\* The armed monitoring path: extend and trim the history, detect movement.
MonitorTick(W, tick, config, sid) ==
  LET tok == tick.instrument_token
      state == W.objs[sid]
      pushed == Append(state.priceHistory,
                       [price |-> tick.last_price, timestamp |-> now])
      kept == TrimHistory(pushed)
      W1 == [W EXCEPT !.objs[sid].priceHistory = kept]
      priceMoved == Abs(tick.last_price - state.baselinePrice) > config.deviation
  IN IF priceMoved
     THEN LET W2 == [W1 EXCEPT !.objs[sid].baselinePrice = tick.last_price]
              W3 == resetInactivityTimer(W2, tick, config, sid)
          IN [W3 EXCEPT !.inactiveSymbols = W3.inactiveSymbols \ {tok},
                        !.lastMove[tok] = now]
     ELSE W1

Tag(W, tok, b) == [W EXCEPT !.branch[tok] = b]

\* History only, before an existing monitor is evaluated under an enabled
\* configuration: movement overtakes the pending timer; closed/reopened marks.
Observe(W, tick, config) ==
  LET tok == tick.instrument_token
      state == W.objs[W.symbolStates[tok]]
      moved == Abs(tick.last_price - state.baselinePrice) > config.deviation
      closedNow == config.respectMarketHours /\ ~shouldAlertsBeActive(tok)
      W1 == IF moved THEN Supersede(W, tok, "move") ELSE W
  IN IF closedNow THEN [W1 EXCEPT !.sawClosed[tok] = TRUE]
     ELSE IF W1.sawClosed[tok]
          THEN [W1 EXCEPT !.sawClosed[tok] = FALSE, !.reopened[tok] = TRUE]
          ELSE W1

\* Body of latestTicks.forEach for one tick.
EvaluateTick(W, tick, cfgs) ==
  LET tok == tick.instrument_token IN
  IF tok \notin DOMAIN cfgs \/ ~cfgs[tok].enabled
  THEN Tag(clearSymbolState(Supersede(W, tok, "disabled"), tok), tok, "disabled")
  ELSE
  LET config == cfgs[tok]
      shouldAlert == IF config.respectMarketHours
                     THEN shouldAlertsBeActive(tok) ELSE TRUE
  IN
  IF tok \notin DOMAIN W.symbolStates
  THEN Tag(CreateState(W, tick, config, shouldAlert), tok, "create")
  ELSE
  LET sid == W.symbolStates[tok]
      state == W.objs[sid]
      Wo == Observe(W, tick, config)
      due == now - state.lastMarketStatusCheck > MARKET_CHECK_INTERVAL
      Wc == IF due THEN [Wo EXCEPT !.objs[sid].lastMarketStatusCheck = now]
            ELSE Wo
  IN
  IF due /\ state.wasMarketOpen # shouldAlert
  THEN LET Wf == [Wc EXCEPT !.objs[sid].wasMarketOpen = shouldAlert] IN
       IF shouldAlert
       THEN Tag(MarketJustOpened(Supersede(Wf, tok, "open"), tick, config, sid),
                tok, "reopen")
       ELSE Tag(MarketJustClosed(Supersede(Wf, tok, "close"), sid), tok, "close")
  ELSE
  IF ~shouldAlert /\ config.respectMarketHours
  THEN Tag(MarketClosedSkip(Supersede(Wc, tok, "closed"), sid), tok, "closed")
  ELSE
  LET priceMoved == Abs(tick.last_price - state.baselinePrice) > config.deviation
  IN Tag(MonitorTick(Wc, tick, config, sid), tok,
         IF priceMoved THEN "moved" ELSE "steady")

\* EvaluateTick plus the history of the prices evaluated since the last arm.
ProcessTick(W, tick, cfgs) ==
  LET tok == tick.instrument_token
      W1 == EvaluateTick(W, tick, cfgs)
  IN [W1 EXCEPT !.seen[tok] = IF W1.nextTimerId # W.nextTimerId
                              THEN {tick.last_price}
                              ELSE W.seen[tok] \cup {tick.last_price}]

RECURSIVE ForEach(_, _, _, _)
ForEach(W, lt, i, cfgs) ==
  IF i > Len(lt.order) THEN W
  ELSE ForEach(ProcessTick(W, lt.val[lt.order[i]], cfgs), lt, i + 1, cfgs)

NoBranch == [k \in Tokens |-> "none"]

NoFlags == [k \in Tokens |-> FALSE]

\* One run of the effect over the current ticks.
EffectOnce(W, cfgs, ts) == ForEach(W, latestTicks(ts), 1, cfgs)

\* The effect runs again when it replaced inactiveSymbols (a dependency).
RECURSIVE EffectLoop(_, _, _, _)
EffectLoop(W, cfgs, ts, fuel) ==
  LET W1 == EffectOnce(W, cfgs, ts) IN
  IF W1.inactiveSymbols = W.inactiveSymbols \/ fuel = 0 THEN W1
  ELSE EffectLoop(W1, cfgs, ts, fuel - 1)

\* The effect after a render; the branch history keeps the first run.
RunEffect(W, cfgs, ts) ==
  LET W0 == [W EXCEPT !.branch = NoBranch, !.reopened = NoFlags]
      W1 == EffectOnce(W0, cfgs, ts)
  IN IF W1.inactiveSymbols = W0.inactiveSymbols THEN W1
     ELSE [EffectLoop(W1, cfgs, ts, 3) EXCEPT !.branch = W1.branch]

\* ---- state machine ---------------------------------------------------------
Configs == {c \in [enabled : BOOLEAN, deviation : Deviations,
                    duration : Durations, respectMarketHours : BOOLEAN] :
              c.enabled \/ c.respectMarketHours}

\* The parts of the state a specification does not use stay as they are here.
DEFAULT_CONFIG ==
  [enabled |-> FALSE, deviation |-> 10, duration |-> 30,
   respectMarketHours |-> TRUE]

NoInput == [given |-> FALSE, nan |-> FALSE, val |-> 0]

NoDialog ==
  [isOpen |-> FALSE, token |-> 0, localConfig |-> DEFAULT_CONFIG,
   typed |-> NoInput, prior |-> << >>, priorSid |-> 0]

NoConn ==
  [eventSourceRef |-> 0, connectionAttempts |-> 0,
   connectionStatus |-> "disconnected", isConnected |-> FALSE,
   isFrozen |-> FALSE, freezingIncidents |-> 0, freezeTimeoutRef |-> 0,
   reconnectTimeoutRef |-> 0]

NoBatch ==
  [raw |-> [parsable |-> FALSE, liveFeed |-> FALSE, entries |-> << >>],
   emitted |-> << >>, diagnostics |-> << >>, before |-> << >>,
   connBefore |-> NoConn, esBefore |-> << >>, timersBefore |-> {}, at |-> 0]

DialogIdle == dialog = NoDialog

FeedIdle ==
  /\ kind = "none"
  /\ mounted = FALSE
  /\ es = << >>
  /\ conn = NoConn
  /\ lastTickTimestamps = << >>
  /\ feedTicks = << >>
  /\ feedAlerts = << >>
  /\ feedTimers = {}
  /\ failures = 0
  /\ late = {}
  /\ lastBatch = NoBatch

NoQuestion == [fn |-> "none"]

OracleIdle ==
  /\ clock = [utc |-> 0, host |-> 0]
  /\ status = [marketType |-> "none"]
  /\ asked = NoQuestion
  /\ inRange = FALSE

NoSnapshot == [taken |-> FALSE]

PageIdle == snapshot = NoSnapshot

InitEngine(feed) ==
  /\ instruments = feed
  /\ ticks = << >>
  /\ configurations = << >>
  /\ alerts = << >>
  /\ inactiveSymbols = {}
  /\ symbolStates = << >>
  /\ objs = << >>
  /\ timers = {}
  /\ marketOpen \in [Tokens -> BOOLEAN]
  /\ \A k \in Tokens \ feed : marketOpen[k]
  /\ nextTimerId = 1
  /\ nextSid = 1
  /\ arms = {}
  /\ superseded = {}
  /\ alerted = {}
  /\ alertsSinceArm = [k \in Tokens |-> 0]
  /\ seen = [k \in Tokens |-> {}]
  /\ sawClosed = NoFlags
  /\ reopened = NoFlags
  /\ lastMove = [k \in Tokens |-> -1]
  /\ branch = NoBranch
  /\ last = [op |-> "init", tok |-> 0, tid |-> 0, added |-> FALSE,
             marked |-> FALSE, kept |-> FALSE]
  /\ steps = 0
  /\ recorded = << >>

InitWith(feed) ==
  /\ InitEngine(feed)
  /\ now = 0
  /\ limit = IF Cardinality(feed) = 1 THEN MaxSteps ELSE MaxStepsPair
  /\ DialogIdle
  /\ FeedIdle
  /\ OracleIdle
  /\ PageIdle

Init == InitWith({1})

InitPair == InitWith(Tokens)

StepLimit == limit

Step(op, tok, tid, added, marked, kept) ==
  /\ steps < StepLimit
  /\ steps' = steps + 1
  /\ last' = [op |-> op, tok |-> tok, tid |-> tid, added |-> added,
              marked |-> marked, kept |-> kept]
  /\ UNCHANGED <<instruments, limit, feedVars, oracleVars, snapshot>>

\* The feed delivers a tick: setTicks prepends it, the effect runs.
NewTick(tok, price) ==
  LET tick == [instrument_token |-> tok, last_price |-> price, receivedAt |-> now]
      ts == Take(<<tick>> \o ticks, MaxTicksStored)
  IN /\ Step("tick", tok, 0, FALSE, FALSE, FALSE)
     /\ ticks' = ts
     /\ Commit(RunEffect(World, configurations, ts))
     /\ UNCHANGED <<configurations, marketOpen, now, recorded, dialog>>

\* Mutation: the configuration is stored but the monitor is not reset.
updateConfiguration_NoReset(token, config) ==
  LET cfgs == Put(configurations, token, config)
      W1 == Supersede(World, token, "config")
  IN /\ Step("config", token, 0, FALSE, FALSE, FALSE)
     /\ configurations' = cfgs
     /\ Commit(RunEffect(W1, cfgs, ticks))
     /\ UNCHANGED <<ticks, marketOpen, now, recorded>>

\* updateConfiguration(token, config), then the effect of the re-render.
updateConfiguration(token, config) ==
  LET cfgs == Put(configurations, token, config)
      W1 == clearSymbolState(Supersede(World, token, "config"), token)
  IN /\ Step("config", token, 0, FALSE, FALSE, FALSE)
     /\ configurations' = cfgs
     /\ Commit(RunEffect(W1, cfgs, ticks))
     /\ UNCHANGED <<ticks, marketOpen, now, recorded>>

\* Mutation: the callback alerts without looking at the market again.
TimerCallback_NoRecheck(W, t) == triggerAlert(W, t)

\* The callback passed to setTimeout in resetInactivityTimer.
TimerCallback(W, t) ==
  LET tok == t.tick.instrument_token
      shouldAlert == IF t.config.respectMarketHours
                     THEN shouldAlertsBeActive(tok) ELSE TRUE
  IN IF shouldAlert THEN triggerAlert(W, t) ELSE clearSymbolState(W, tok)

\* A pending timer expires: its callback runs; when the callback replaced
\* inactiveSymbols, the effect of the re-render follows.
TimerFire(t) ==
  LET tok == t.tick.instrument_token
      W0 == [World EXCEPT !.timers = timers \ {t}, !.branch = NoBranch,
                          !.reopened = NoFlags]
      W1 == TimerCallback(W0, t)
      rerender == W1.alerts # alerts \/ W1.inactiveSymbols # inactiveSymbols
  IN /\ now >= t.expiry
     /\ Step("fire", tok, t.id, W1.alerts # alerts,
             tok \in W1.inactiveSymbols, t.sid \in DOMAIN Collect(W1).objs)
     /\ Commit(Collect(IF rerender THEN RunEffect(W1, configurations, ticks)
                       ELSE W1))
     /\ recorded' = IF t.id \in W1.alerted THEN Append(recorded, t.id)
                    ELSE recorded
     /\ UNCHANGED <<ticks, configurations, marketOpen, now, dialog>>

clearAllAlerts ==
  LET W1 == [World EXCEPT !.alerts = << >>, !.inactiveSymbols = {}]
  IN /\ Step("clearAll", 0, 0, FALSE, FALSE, FALSE)
     /\ Commit(RunEffect(W1, configurations, ticks))
     /\ recorded' = << >>
     /\ UNCHANGED <<ticks, configurations, marketOpen, now, dialog>>

\* The session oracle's answer for an instrument changes.
MarketFlip(tok) ==
  /\ Step("flip", tok, 0, FALSE, FALSE, FALSE)
  /\ marketOpen' = [marketOpen EXCEPT ![tok] = ~marketOpen[tok]]
  /\ branch' = NoBranch
  /\ reopened' = NoFlags
  /\ UNCHANGED <<ticks, configurations, alerts, inactiveSymbols, symbolStates,
                 objs, timers, now, nextTimerId, nextSid, arms, superseded,
                 alerted, alertsSinceArm, seen, sawClosed, lastMove, recorded,
                 dialog>>

\* Time passes; a pending callback runs when its delay has elapsed.
Advance(d) ==
  /\ \A t \in timers : now + d <= t.expiry
  /\ Step("advance", 0, 0, FALSE, FALSE, FALSE)
  /\ now' = now + d
  /\ branch' = NoBranch
  /\ reopened' = NoFlags
  /\ UNCHANGED <<ticks, configurations, alerts, inactiveSymbols, symbolStates,
                 objs, timers, marketOpen, nextTimerId, nextSid, arms,
                 superseded, alerted, alertsSinceArm, seen, sawClosed, lastMove,
                 recorded, dialog>>

Next ==
  \/ \E tok \in instruments, price \in Prices : NewTick(tok, price)
  \/ \E tok \in instruments, config \in Configs :
       updateConfiguration(tok, config) /\ UNCHANGED dialog
  \/ \E t \in timers : TimerFire(t)
  \/ clearAllAlerts
  \/ \E tok \in instruments : MarketFlip(tok)
  \/ \E d \in TimeSteps : Advance(d)

Spec == Init /\ [][Next]_vars

SpecPair == InitPair /\ [][Next]_vars

\* The price history of an instrument's monitor.
HistoryOf(k) == objs[symbolStates[k]].priceHistory

\* ---- a long run of alerts ---------------------------------------------------
\* One instrument, monitored around the clock, whose price moves after every
\* alert and then stays put for a full duration, again and again.
LogConfig ==
  [enabled |-> TRUE, deviation |-> 1, duration |-> 20,
   respectMarketHours |-> FALSE]

LogPrice ==
  IF 1 \in DOMAIN symbolStates
  THEN IF objs[symbolStates[1]].baselinePrice = 10 THEN 12 ELSE 10
  ELSE 10

InitLog ==
  /\ InitEngine({1})
  /\ now = 0
  /\ limit = MaxLogSteps
  /\ DialogIdle
  /\ FeedIdle
  /\ OracleIdle
  /\ PageIdle

NextLog ==
  \/ /\ configurations = << >>
     /\ updateConfiguration(1, LogConfig)
     /\ UNCHANGED dialog
  \/ /\ timers = {}
     /\ 1 \in DOMAIN configurations
     /\ NewTick(1, LogPrice)
  \/ \E t \in timers : TimerFire(t)
  \/ \E d \in TimeSteps : timers # {} /\ Advance(d)
  \/ Len(alerts) = ALERTS_CAP /\ clearAllAlerts

SpecLog == InitLog /\ [][NextLog]_vars

\* ---- a long run of ticks -----------------------------------------------------
\* One instrument, monitored around the clock with the longest duration the
\* settings offer, whose price stays within the deviation: a tick every
\* second until the history is full, then also pauses of any length.
HistoryConfig ==
  [enabled |-> TRUE, deviation |-> 1, duration |-> 300,
   respectMarketHours |-> FALSE]

HistorySteps == {1000, 100000}

HistoryPrice ==
  IF 1 \in DOMAIN symbolStates
  THEN IF HistoryOf(1)[Len(HistoryOf(1))].price = 10 THEN 11 ELSE 10
  ELSE 10

InitHistory ==
  /\ InitEngine({1})
  /\ now = 0
  /\ limit = MaxHistorySteps
  /\ DialogIdle
  /\ FeedIdle
  /\ OracleIdle
  /\ PageIdle

NextHistory ==
  \/ /\ configurations = << >>
     /\ updateConfiguration(1, HistoryConfig)
     /\ UNCHANGED dialog
  \/ /\ 1 \in DOMAIN configurations
     /\ last.op # "tick"
     /\ NewTick(1, HistoryPrice)
  \/ \E t \in timers : TimerFire(t)
  \/ \E d \in HistorySteps \cup {t.expiry - now : t \in timers} :
       /\ last.op \in {"tick", "fire"}
       /\ d > 0
       /\ d # 1000 => Len(HistoryOf(1)) = HISTORY_CAP
       /\ Advance(d)

SpecHistory == InitHistory /\ [][NextHistory]_vars

\* ---- the alert settings dialog ------------------------------------------------
\* Deviations are counted in hundredths of a price unit here, so that the
\* input's floor of 0.01 is 1 and its fallback of 0.1 is 10.
TypedDeviations ==
  {[given |-> TRUE, nan |-> TRUE, val |-> 0]}
    \cup {[given |-> TRUE, nan |-> FALSE, val |-> v] : v \in {-500, 0, 1}}

SliderDurations == {5, 20}

engineState ==
  <<ticks, configurations, alerts, inactiveSymbols, symbolStates, objs, timers,
    marketOpen, now, nextTimerId, nextSid, arms, superseded, alerted,
    alertsSinceArm, seen, sawClosed, reopened, lastMove, branch, recorded>>

Max2(a, b) == IF a > b THEN a ELSE b

\* Math.max(0.01, Number.parseFloat(e.target.value) || 0.1)
DeviationOf(typed) ==
  Max2(1, IF typed.nan \/ typed.val = 0 THEN 10 ELSE typed.val)

DialogStep(op, d) ==
  /\ Step(op, dialog.token, 0, FALSE, FALSE, FALSE)
  /\ dialog' = d
  /\ UNCHANGED engineState

\* The settings button of an instrument card: the dialog opens on the
\* instrument's configuration, or on the default one.
OpenDialog(tok) ==
  /\ ~dialog.isOpen
  /\ DialogStep("open",
       [isOpen |-> TRUE, token |-> tok,
        localConfig |-> IF tok \in DOMAIN configurations
                        THEN configurations[tok] ELSE DEFAULT_CONFIG,
        typed |-> NoInput,
        prior |-> configurations,
        priorSid |-> IF tok \in DOMAIN symbolStates
                     THEN symbolStates[tok] ELSE 0])

EnabledSwitch ==
  /\ dialog.isOpen
  /\ DialogStep("enabled",
       [dialog EXCEPT !.localConfig.enabled = ~dialog.localConfig.enabled])

RespectSwitch ==
  /\ dialog.isOpen /\ dialog.localConfig.enabled
  /\ DialogStep("respect",
       [dialog EXCEPT !.localConfig.respectMarketHours =
                         ~dialog.localConfig.respectMarketHours])

DeviationInput(typed) ==
  /\ dialog.isOpen /\ dialog.localConfig.enabled
  /\ DialogStep("deviation",
       [dialog EXCEPT !.localConfig.deviation = DeviationOf(typed),
                      !.typed = typed])

DurationSlider(value) ==
  /\ dialog.isOpen /\ dialog.localConfig.enabled
  /\ DialogStep("duration", [dialog EXCEPT !.localConfig.duration = value])

CancelDialog ==
  /\ dialog.isOpen
  /\ DialogStep("cancel", [dialog EXCEPT !.isOpen = FALSE])

\* The Save button: disabled for an enabled configuration whose deviation is
\* not positive; otherwise onSave(localConfig), then the dialog closes.
handleSave ==
  /\ dialog.isOpen
  /\ ~(dialog.localConfig.enabled /\ dialog.localConfig.deviation <= 0)
  /\ updateConfiguration(dialog.token, dialog.localConfig)
  /\ dialog' = [dialog EXCEPT !.isOpen = FALSE]

InitDialog ==
  /\ InitEngine({1})
  /\ now = 0
  /\ limit = MaxDialogSteps
  /\ DialogIdle
  /\ FeedIdle
  /\ OracleIdle
  /\ PageIdle

NextDialog ==
  \/ \E tok \in instruments : OpenDialog(tok)
  \/ EnabledSwitch
  \/ RespectSwitch
  \/ \E typed \in TypedDeviations : DeviationInput(typed)
  \/ \E value \in SliderDurations : DurationSlider(value)
  \/ CancelDialog
  \/ handleSave
  \/ \E tok \in instruments, price \in Prices : NewTick(tok, price)

SpecDialog == InitDialog /\ [][NextDialog]_vars

\* ---- the feed connectors -------------------------------------------------------
\* One run follows one hook instance: useTickData ("main") or
\* useUpstoxTickData ("upstox").  setTotalTicks, setLastTickTime, the raw
\* message log and the informational debug lines outside processTickData are
\* left out.
FEED_MAX_ALERTS == 20
UPSTOX_MAX_ALERTS == 50
FREEZE_THRESHOLD == 5000
DELAY_THRESHOLD == 1000
CONNECTION_TIMEOUT == 15000
RECONNECT_BASE == 5000
RECONNECT_CAP == 30000
FREEZE_TIMEOUT == 30000
UPSTOX_RECONNECT == 5000

\* Date.now() when the hook mounts, and the event times the feed stamps.
FeedStart == 100000

EventTimes == {FeedStart - 1000, FeedStart + 1000}

FeedTimeSteps == {5000}

\* An entry of a batch: well-formed with a token and an event time (0: the
\* entry carries none), or malformed.
Entries ==
  [ok : {TRUE}, token : {1}, timestamp : EventTimes \cup {0}, price : {10}]
    \cup [ok : {TRUE}, token : {2}, timestamp : {FeedStart + 1000}, price : {10}]
    \cup [ok : {FALSE}, token : {1}, timestamp : {0}, price : {0}]

EntrySeqs == UNION {[1..n -> Entries] : n \in 1..MaxBatch}

\* event.data of a "tick" event: a JSON array of entries, or not JSON at all.
MainBatches ==
  {[parsable |-> FALSE, liveFeed |-> FALSE, entries |-> << >>]}
    \cup {[parsable |-> TRUE, liveFeed |-> FALSE, entries |-> b] : b \in EntrySeqs}

\* e.data of the Upstox stream: not JSON, JSON of another type, or a
\* live_feed object whose feeds are keyed by instrument.
UpstoxBatches ==
  {[parsable |-> FALSE, liveFeed |-> FALSE, entries |-> << >>],
   [parsable |-> TRUE, liveFeed |-> FALSE, entries |-> << >>]}
    \cup {[parsable |-> TRUE, liveFeed |-> TRUE, entries |-> b] :
            b \in {c \in EntrySeqs :
                     \A i, j \in DOMAIN c : i # j => c[i].token # c[j].token}}

\* The messages of a run that follows the connection rather than the data:
\* something that is not JSON, or one well-formed tick.
LifecycleBatches ==
  {[parsable |-> FALSE, liveFeed |-> FALSE, entries |-> << >>],
   [parsable |-> TRUE, liveFeed |-> FALSE,
    entries |-> <<[ok |-> TRUE, token |-> 1, timestamp |-> 0, price |-> 10]>>],
   [parsable |-> TRUE, liveFeed |-> TRUE,
    entries |-> <<[ok |-> TRUE, token |-> 1, timestamp |-> 0, price |-> 10]>>]}

Feed ==
  [es |-> es, conn |-> conn, timers |-> feedTimers, alerts |-> feedAlerts,
   ticks |-> feedTicks, lastTs |-> lastTickTimestamps]

CommitFeed(F) ==
  /\ es' = F.es
  /\ conn' = F.conn
  /\ feedTimers' = F.timers
  /\ feedAlerts' = F.alerts
  /\ feedTicks' = F.ticks
  /\ lastTickTimestamps' = F.lastTs

\* React drops state updates of an unmounted component; refs, timers and
\* EventSource objects are changed all the same.
AfterUnmount(F0, F1) ==
  [F1 EXCEPT !.alerts = F0.alerts,
             !.ticks = F0.ticks,
             !.conn.connectionStatus = F0.conn.connectionStatus,
             !.conn.isConnected = F0.conn.isConnected,
             !.conn.isFrozen = F0.conn.isFrozen,
             !.conn.freezingIncidents = F0.conn.freezingIncidents]

\* The handle setTimeout returns: one that no pending timer and no ref holds.
NewTimerId(F) ==
  LET used == {t.id : t \in F.timers}
                \cup {F.conn.freezeTimeoutRef, F.conn.reconnectTimeoutRef}
  IN CHOOSE n \in 1..(Cardinality(used) + 1) :
       n \notin used /\ \A m \in 1..(n - 1) : m \in used

setTimeout(F, id, what, esid, delay, k) ==
  [F EXCEPT !.timers = F.timers \cup
     {[id |-> id, kind |-> what, es |-> esid, delay |-> delay,
       expiry |-> now + delay, k |-> k]}]

clearFeedTimeout(F, id) == [F EXCEPT !.timers = {t \in F.timers : t.id # id}]

close(F, i) == [F EXCEPT !.es[i].readyState = "CLOSED"]

addAlert(F, type, severity) ==
  [F EXCEPT !.alerts = Take(<<[type |-> type, severity |-> severity]>>
                              \o F.alerts, FEED_MAX_ALERTS - 1)]

upstoxAddAlert(F, type, severity) ==
  [F EXCEPT !.alerts = <<[type |-> type, severity |-> severity]>>
                         \o Take(F.alerts, UPSTOX_MAX_ALERTS - 1)]

\* 5000 * Math.pow(2, attempts - 1)
Backoff(attempts) ==
  IF attempts >= 1 THEN RECONNECT_BASE * 2^(attempts - 1)
  ELSE RECONNECT_BASE \div 2^(1 - attempts)

\* The loop over the entries of a parsed batch in processTickData.
RECURSIVE ProcessEntries(_, _, _, _)
ProcessEntries(entries, i, lastTs, out) ==
  IF i > Len(entries) THEN [lastTs |-> lastTs, ticks |-> out]
  ELSE LET e == entries[i] IN
       IF ~e.ok THEN ProcessEntries(entries, i + 1, lastTs, out)
       ELSE LET receivedAt == now
                tickTimestamp == IF e.timestamp # 0 THEN e.timestamp
                                 ELSE receivedAt
                lastTickTimeForInstrument ==
                  IF e.token \in DOMAIN lastTs THEN lastTs[e.token] ELSE 0
                interTickDelay ==
                  IF lastTickTimeForInstrument # 0
                  THEN tickTimestamp - lastTickTimeForInstrument ELSE 0
                newTick == [instrument_token |-> e.token,
                            last_price |-> e.price,
                            timestamp |-> tickTimestamp,
                            delay |-> Max2(0, interTickDelay),
                            receivedAt |-> receivedAt]
            IN ProcessEntries(entries, i + 1, Put(lastTs, e.token, tickTimestamp),
                              Append(out, newTick))

\* processTickData(rawData): the ticks it returns, the diagnostics it leaves.
processTickData(F, raw) ==
  IF raw.parsable
  THEN LET r == ProcessEntries(raw.entries, 1, F.lastTs, << >>)
       IN [F |-> [F EXCEPT !.lastTs = r.lastTs],
           ticks |-> r.ticks,
           diagnostics |->
             <<"debug: Processing event", "debug: Successfully parsed JSON array">>
               \o IF Len(r.ticks) > 0
                  THEN <<"debug: Successfully processed ticks">> ELSE << >>]
  ELSE [F |-> addAlert(F, "data", "medium"),
        ticks |-> << >>,
        diagnostics |-> <<"debug: Processing event",
                          "debug: Error processing data",
                          "alert: data">>]

\* connectToSSE without its catch branch: the endpoint is a constant, valid URL.
connectToSSE(F) ==
  LET F1 == IF F.conn.eventSourceRef # 0 THEN close(F, F.conn.eventSourceRef)
            ELSE F
      i == Len(F1.es) + 1
      F2 == [F1 EXCEPT !.conn.connectionAttempts = F1.conn.connectionAttempts + 1,
                       !.conn.connectionStatus = "connecting",
                       !.es = Append(F1.es, [readyState |-> "CONNECTING",
                                             handlers |-> TRUE]),
                       !.conn.eventSourceRef = i]
  IN setTimeout(F2, NewTimerId(F2), "connectionTimeout", i, CONNECTION_TIMEOUT, 0)

\* The callback of connectionTimeout; eventSource is the one it was made for.
connectionTimeoutCallback(F, t) ==
  IF F.es[t.es].readyState = "CONNECTING"
  THEN addAlert(close(F, t.es), "connection", "high")
  ELSE F

clearConnectionTimeout(F, i) ==
  [F EXCEPT !.timers = {t \in F.timers :
                          ~(t.kind = "connectionTimeout" /\ t.es = i)}]

onopen(F, i) ==
  LET F1 == clearConnectionTimeout(F, i)
      F2 == [F1 EXCEPT !.conn.isConnected = TRUE,
                       !.conn.connectionStatus = "connected",
                       !.conn.connectionAttempts = 0]
  IN addAlert(F2, "connection", "low")

\* Mutation: the watchdog arms itself again when it fires.
freezeCallback_Repeat(F) ==
  LET F1 == addAlert([F EXCEPT !.conn.isFrozen = TRUE,
                               !.conn.freezingIncidents =
                                 F.conn.freezingIncidents + 1],
                     "freeze", "high")
      id == NewTimerId(F1)
  IN setTimeout([F1 EXCEPT !.conn.freezeTimeoutRef = id], id, "freeze", 0,
                FREEZE_THRESHOLD, 0)

freezeCallback(F) ==
  addAlert([F EXCEPT !.conn.isFrozen = TRUE,
                     !.conn.freezingIncidents = F.conn.freezingIncidents + 1],
           "freeze", "high")

\* The listener of "tick" events.
tickListener(F, raw) ==
  LET p == processTickData(F, raw)
      processedTicks == p.ticks
      F1 == p.F
  IN IF Len(processedTicks) > 0
     THEN LET F2 == [F1 EXCEPT !.ticks = Take(processedTicks \o F1.ticks,
                                               MaxTicksStored),
                               !.conn.isFrozen = FALSE]
              F3 == IF \E j \in DOMAIN processedTicks :
                         processedTicks[j].delay > DELAY_THRESHOLD
                    THEN addAlert(F2, "delay", "medium") ELSE F2
              F4 == IF F3.conn.freezeTimeoutRef # 0
                    THEN clearFeedTimeout(F3, F3.conn.freezeTimeoutRef) ELSE F3
              id == NewTimerId(F4)
          IN setTimeout([F4 EXCEPT !.conn.freezeTimeoutRef = id], id, "freeze",
                        0, FREEZE_THRESHOLD, 0)
     ELSE F1

\* eventSource.onerror; k is history only (failed attempts so far).
onerror(F, i, k) ==
  LET F1 == clearConnectionTimeout(F, i) IN
  IF F1.es[i].readyState = "CLOSED"
  THEN LET F2 == [F1 EXCEPT !.conn.isConnected = FALSE,
                            !.conn.connectionStatus = "disconnected"]
           delay == Min2(Backoff(F2.conn.connectionAttempts), RECONNECT_CAP)
           F3 == addAlert(F2, "connection", "high")
           F4 == IF F3.conn.reconnectTimeoutRef # 0
                 THEN clearFeedTimeout(F3, F3.conn.reconnectTimeoutRef) ELSE F3
           id == NewTimerId(F4)
       IN setTimeout([F4 EXCEPT !.conn.reconnectTimeoutRef = id], id,
                     "reconnect", 0, delay, k)
  ELSE F1

\* The cleanup of useTickData's effect.
cleanup(F) ==
  LET F1 == IF F.conn.eventSourceRef # 0 THEN close(F, F.conn.eventSourceRef)
            ELSE F
      F2 == IF F1.conn.freezeTimeoutRef # 0
            THEN clearFeedTimeout(F1, F1.conn.freezeTimeoutRef) ELSE F1
  IN IF F2.conn.reconnectTimeoutRef # 0
     THEN clearFeedTimeout(F2, F2.conn.reconnectTimeoutRef) ELSE F2

\* ---- useUpstoxTickData ---------------------------------------------------------
upstoxFreezeCallback(F) ==
  upstoxAddAlert([F EXCEPT !.conn.isFrozen = TRUE], "freeze", "high")

scheduleFreeze(F) ==
  LET F1 == IF F.conn.freezeTimeoutRef # 0
            THEN clearFeedTimeout(F, F.conn.freezeTimeoutRef) ELSE F
      id == NewTimerId(F1)
  IN setTimeout([F1 EXCEPT !.conn.freezeTimeoutRef = id], id, "upstoxFreeze", 0,
                FREEZE_TIMEOUT, 0)

upstoxOnopen(F) ==
  scheduleFreeze(upstoxAddAlert([F EXCEPT !.conn.connectionStatus = "connected"],
                                "connection", "low"))

\* The loop over Object.entries(payload.feeds) in es.onmessage.
RECURSIVE UpstoxEntries(_, _, _, _)
UpstoxEntries(entries, i, lastTs, out) ==
  IF i > Len(entries) THEN [lastTs |-> lastTs, ticks |-> out]
  ELSE LET e == entries[i] IN
       IF ~e.ok THEN UpstoxEntries(entries, i + 1, lastTs, out)
       ELSE LET ts == IF e.timestamp # 0 THEN e.timestamp ELSE now
                prev == IF e.token \in DOMAIN lastTs THEN lastTs[e.token] ELSE 0
                delay == IF prev # 0 THEN ts - prev ELSE 0
                newTick == [instrument_token |-> e.token,
                            last_price |-> e.price, timestamp |-> ts,
                            delay |-> delay, receivedAt |-> now]
            IN UpstoxEntries(entries, i + 1, Put(lastTs, e.token, ts),
                             Append(out, newTick))

\* es.onmessage: the state it leaves, the ticks and diagnostics it produced.
upstoxOnmessage(F, raw) ==
  LET F1 == scheduleFreeze(F) IN
  IF ~raw.parsable
  THEN [F |-> upstoxAddAlert(F1, "data", "medium"), ticks |-> << >>,
        diagnostics |-> <<"alert: data">>]
  ELSE IF ~raw.liveFeed
  THEN [F |-> F1, ticks |-> << >>, diagnostics |-> << >>]
  ELSE LET r == UpstoxEntries(raw.entries, 1, F1.lastTs, << >>)
           F2 == [F1 EXCEPT !.lastTs = r.lastTs]
       IN [F |-> IF Len(r.ticks) > 0
                 THEN [F2 EXCEPT !.ticks = Take(r.ticks \o F2.ticks,
                                                MaxTicksStored),
                                 !.conn.isFrozen = FALSE]
                 ELSE F2,
           ticks |-> r.ticks, diagnostics |-> << >>]

\* Mutation: the failed EventSource is left as it is when the reconnect is set up.
upstoxOnerror_NoClose(F, i, k) ==
  LET F1 == upstoxAddAlert([F EXCEPT !.conn.connectionStatus = "error"],
                           "connection", "medium")
  IN setTimeout(F1, NewTimerId(F1), "upstoxReconnect", 0, UPSTOX_RECONNECT, k)

\* es.onerror of the first EventSource: close it, reconnect after 5 s.
upstoxOnerror(F, i, k) ==
  LET F1 == upstoxAddAlert([F EXCEPT !.conn.connectionStatus = "error"],
                           "connection", "medium")
      F2 == close(F1, i)
  IN setTimeout(F2, NewTimerId(F2), "upstoxReconnect", 0, UPSTOX_RECONNECT, k)

\* The reconnect callback: a new EventSource nobody listens to.
upstoxReconnectCallback(F) ==
  [F EXCEPT !.conn.connectionStatus = "connecting",
            !.es = Append(F.es, [readyState |-> "CONNECTING",
                                 handlers |-> FALSE]),
            !.conn.eventSourceRef = Len(F.es) + 1]

\* The cleanup of the init effect: es is the first EventSource.
upstoxCleanup(F) ==
  LET F1 == close(F, 1)
  IN IF F1.conn.freezeTimeoutRef # 0
     THEN clearFeedTimeout(F1, F1.conn.freezeTimeoutRef) ELSE F1

\* ---- the feed's state machine ---------------------------------------------------
FeedStep(op) ==
  /\ steps < StepLimit
  /\ steps' = steps + 1
  /\ last' = [op |-> op, tok |-> 0, tid |-> 0, added |-> FALSE,
              marked |-> FALSE, kept |-> FALSE]
  /\ UNCHANGED <<instruments, limit, oracleVars, snapshot, dialog, kind, ticks,
                 configurations, alerts, inactiveSymbols, symbolStates, objs,
                 timers, marketOpen, nextTimerId, nextSid, arms, superseded,
                 alerted, alertsSinceArm, seen, sawClosed, reopened, lastMove,
                 branch, recorded>>

BlankFeed ==
  [es |-> << >>, conn |-> NoConn, timers |-> {}, alerts |-> << >>,
   ticks |-> << >>, lastTs |-> << >>]

\* useUpstoxTickData after its init effect.
UpstoxMounted ==
  [BlankFeed EXCEPT !.conn.connectionStatus = "connecting",
                    !.es = <<[readyState |-> "CONNECTING", handlers |-> TRUE]>>,
                    !.conn.eventSourceRef = 1]

InitFeedWith(lim, opened) ==
  /\ InitEngine({1})
  /\ now = FeedStart
  /\ limit = lim
  /\ DialogIdle
  /\ OracleIdle
  /\ PageIdle
  /\ kind \in {"main", "upstox"}
  /\ mounted = TRUE
  /\ LET F0 == IF kind = "main" THEN connectToSSE(BlankFeed) ELSE UpstoxMounted
         F1 == [F0 EXCEPT !.es[1].readyState = "OPEN"]
         F == IF ~opened THEN F0
              ELSE IF kind = "main" THEN onopen(F1, 1) ELSE upstoxOnopen(F1)
     IN /\ es = F.es
        /\ conn = F.conn
        /\ feedTimers = F.timers
        /\ feedAlerts = F.alerts
        /\ feedTicks = F.ticks
        /\ lastTickTimestamps = F.lastTs
  /\ failures = 0
  /\ late = {}
  /\ lastBatch = NoBatch

\* The state after the first render and its effects; now is Date.now() then.
InitFeed == InitFeedWith(MaxFeedSteps, FALSE)

\* The state once the first connection has been established.
InitBatch == InitFeedWith(MaxBatchSteps, TRUE)

\* The connection of EventSource i is established: open event.
EsOpen(i) ==
  LET F0 == [Feed EXCEPT !.es[i].readyState = "OPEN"]
      F1 == IF ~es[i].handlers THEN F0
            ELSE IF kind = "main" THEN onopen(F0, i) ELSE upstoxOnopen(F0)
  IN /\ es[i].readyState = "CONNECTING"
     /\ FeedStep("open")
     /\ CommitFeed(IF mounted THEN F1 ELSE AfterUnmount(F0, F1))
     /\ failures' = 0
     /\ UNCHANGED <<now, mounted, late, lastBatch>>

\* The connection of EventSource i fails: error event.  The browser either
\* keeps retrying (readyState CONNECTING) or gives up (CLOSED); it only gives
\* up on an attempt that has not been established.
EsError(i, fatal) ==
  LET F0 == [Feed EXCEPT !.es[i].readyState =
                            IF fatal THEN "CLOSED" ELSE "CONNECTING"]
      F1 == IF ~es[i].handlers THEN F0
            ELSE IF kind = "main" THEN onerror(F0, i, failures)
                 ELSE upstoxOnerror(F0, i, failures)
  IN /\ es[i].readyState \in {"CONNECTING", "OPEN"}
     /\ fatal => es[i].readyState = "CONNECTING"
     /\ FeedStep("error")
     /\ CommitFeed(IF mounted THEN F1 ELSE AfterUnmount(F0, F1))
     /\ failures' = IF F1.es[i].readyState = "CLOSED" THEN failures + 1
                    ELSE failures
     /\ UNCHANGED <<now, mounted, late, lastBatch>>

\* EventSource i delivers a message to the hook's listener.
EsMessage(i, raw) ==
  LET r == IF kind = "main"
           THEN LET F1 == tickListener(Feed, raw)
                IN [F |-> F1, ticks |-> processTickData(Feed, raw).ticks,
                    diagnostics |-> processTickData(Feed, raw).diagnostics]
           ELSE upstoxOnmessage(Feed, raw)
  IN /\ es[i].readyState = "OPEN" /\ es[i].handlers
     /\ raw \in (IF kind = "main" THEN MainBatches ELSE UpstoxBatches)
     /\ FeedStep("message")
     /\ CommitFeed(IF mounted THEN r.F ELSE AfterUnmount(Feed, r.F))
     /\ lastBatch' = [raw |-> raw, emitted |-> r.ticks,
                      diagnostics |-> r.diagnostics,
                      before |-> lastTickTimestamps, connBefore |-> conn,
                      esBefore |-> es, timersBefore |-> feedTimers,
                      at |-> now]
     /\ UNCHANGED <<now, mounted, failures, late>>

\* A pending callback of the hook runs.
FeedTimerFire(t) ==
  LET F0 == [Feed EXCEPT !.timers = feedTimers \ {t}]
      F1 == CASE t.kind = "connectionTimeout" -> connectionTimeoutCallback(F0, t)
              [] t.kind = "freeze" -> freezeCallback(F0)
              [] t.kind = "reconnect" -> connectToSSE(F0)
              [] t.kind = "upstoxFreeze" -> upstoxFreezeCallback(F0)
              [] t.kind = "upstoxReconnect" -> upstoxReconnectCallback(F0)
      F2 == IF mounted THEN F1 ELSE AfterUnmount(F0, F1)
  IN /\ now >= t.expiry
     /\ FeedStep("timer")
     /\ CommitFeed(F2)
     /\ late' = IF ~mounted /\ F2 # F0 THEN late \cup {t.kind} ELSE late
     /\ UNCHANGED <<now, mounted, failures, lastBatch>>

\* The component unmounts: the cleanup of the hook's effect runs.
FeedCleanup ==
  /\ mounted
  /\ FeedStep("cleanup")
  /\ mounted' = FALSE
  /\ CommitFeed(IF kind = "main" THEN cleanup(Feed) ELSE upstoxCleanup(Feed))
  /\ UNCHANGED <<now, failures, late, lastBatch>>

\* Time passes, up to the next pending callback at most.
FeedAdvance(d) ==
  /\ d > 0
  /\ \A t \in feedTimers : now + d <= t.expiry
  /\ FeedStep("advance")
  /\ now' = now + d
  /\ UNCHANGED <<mounted, es, conn, lastTickTimestamps, feedTicks, feedAlerts,
                 feedTimers, failures, late, lastBatch>>

NextFeed ==
  \/ \E i \in DOMAIN es : EsOpen(i)
  \/ \E i \in DOMAIN es, fatal \in BOOLEAN : EsError(i, fatal)
  \/ \E i \in DOMAIN es, raw \in LifecycleBatches : EsMessage(i, raw)
  \/ \E t \in feedTimers : FeedTimerFire(t)
  \/ FeedCleanup
  \/ \E d \in FeedTimeSteps \cup {t.expiry - now : t \in feedTimers} :
       FeedAdvance(d)

SpecFeed == InitFeed /\ [][NextFeed]_vars

\* An established connection delivering batches of every shape.
NextBatch ==
  \/ \E i \in DOMAIN es, raw \in MainBatches \cup UpstoxBatches :
       EsMessage(i, raw)
  \/ \E t \in feedTimers : FeedTimerFire(t)
  \/ \E d \in FeedTimeSteps : FeedAdvance(d)

SpecBatch == InitBatch /\ [][NextBatch]_vars

\* ---- a long run of diagnostics -------------------------------------------------
\* An established connection that delivers, in any order, messages that
\* cannot be parsed (one data diagnostic each) and messages with one tick.
AlertLogBatches ==
  {[parsable |-> FALSE, liveFeed |-> FALSE, entries |-> << >>],
   [parsable |-> TRUE, liveFeed |-> kind = "upstox",
    entries |-> <<[ok |-> TRUE, token |-> 1, timestamp |-> 0, price |-> 10]>>]}

InitAlertLog == InitFeedWith(MaxAlertLogSteps, TRUE)

NextAlertLog == \E i \in DOMAIN es, raw \in AlertLogBatches : EsMessage(i, raw)

SpecAlertLog == InitAlertLog /\ [][NextAlertLog]_vars

\* ---- the page: a feed hook and the inactivity engine it feeds -----------------------
\* The page component calls the feed hook and passes its ticks to
\* useInactivityAlerts: the primary feed's array as it is, the ancillary
\* feed's through an adapter that builds a new array on every render.  A run
\* follows one feed and its engine; renders caused by the other feed or by
\* the page's own state (the selected tab) are left out.
PageDurations == {5, 40}

PagePrices == {10, 12}

PageConfigs ==
  {[enabled |-> TRUE, deviation |-> 1, duration |-> d,
    respectMarketHours |-> TRUE] : d \in PageDurations}

\* The instrument keys of the ancillary feed, as characters: one security
\* listed on two exchanges.
UpstoxKey ==
  <<<<"N", "S", "E", "_", "E", "Q", "|", "I", "N", "E", "1">>,
    <<"B", "S", "E", "_", "E", "Q", "|", "I", "N", "E", "1">>>>

DigitChars == <<"0", "1", "2", "3", "4", "5", "6", "7", "8", "9">>

IsDigit(c) == \E i \in DOMAIN DigitChars : DigitChars[i] = c

DigitValue(c) == (CHOOSE i \in DOMAIN DigitChars : DigitChars[i] = c) - 1

\* key.replace(/[^0-9]/g, "")
RECURSIVE OnlyDigits(_)
OnlyDigits(chars) ==
  IF chars = << >> THEN << >>
  ELSE IF IsDigit(Head(chars)) THEN <<Head(chars)>> \o OnlyDigits(Tail(chars))
       ELSE OnlyDigits(Tail(chars))

\* Number.parseInt(digits) || 0: no digit at all gives NaN, hence 0.
RECURSIVE ParseIntOr0(_, _)
ParseIntOr0(digits, acc) ==
  IF digits = << >> THEN acc
  ELSE ParseIntOr0(Tail(digits), acc * 10 + DigitValue(Head(digits)))

\* upstoxTicks.map(...): the key becomes the number made of its digits.
upstoxTicksForAlerts(ts) ==
  [i \in DOMAIN ts |->
     [ts[i] EXCEPT !.instrument_token =
        ParseIntOr0(OnlyDigits(UpstoxKey[ts[i].instrument_token]), 0)]]

PageEntry(tok, price) ==
  [ok |-> TRUE, token |-> tok, timestamp |-> 0, price |-> price]

\* The messages of a run: not JSON, one tick, or two ticks of different
\* prices that reach the engine under one instrument token.
PageBatches ==
  {[parsable |-> FALSE, liveFeed |-> FALSE, entries |-> << >>]}
    \cup {[parsable |-> TRUE, liveFeed |-> kind = "upstox",
           entries |-> <<PageEntry(1, p)>>] : p \in PagePrices}
    \cup {[parsable |-> TRUE, liveFeed |-> kind = "upstox",
           entries |-> <<PageEntry(1, p),
                         PageEntry(IF kind = "main" THEN 1 ELSE 2, q)>>] :
            <<p, q>> \in {pq \in PagePrices \X PagePrices : pq[1] # pq[2]}}

TakeSnapshot ==
  [taken |-> TRUE, conn |-> conn, es |-> es, feedTimers |-> feedTimers,
   feedAlerts |-> feedAlerts, symbolStates |-> symbolStates, objs |-> objs,
   timers |-> timers, inactiveSymbols |-> inactiveSymbols, alerts |-> alerts]

PageStep(op) ==
  /\ steps < StepLimit
  /\ steps' = steps + 1
  /\ last' = [op |-> op, tok |-> 0, tid |-> 0, added |-> FALSE,
              marked |-> FALSE, kept |-> FALSE]
  /\ snapshot' = TakeSnapshot
  /\ UNCHANGED <<instruments, limit, oracleVars, dialog, kind, mounted,
                 configurations, marketOpen, now, recorded, failures, late>>

\* The feed hook set some of its state: the page renders again.
Rendered(F0, F1) ==
  \/ F1.alerts # F0.alerts
  \/ F1.conn.connectionStatus # F0.conn.connectionStatus
  \/ F1.conn.isConnected # F0.conn.isConnected
  \/ F1.conn.isFrozen # F0.conn.isFrozen
  \/ F1.conn.freezingIncidents # F0.conn.freezingIncidents

\* The ticks the engine is called with after the feed hook's state is F.
TicksForAlerts(F) ==
  IF kind = "main" THEN F.ticks ELSE upstoxTicksForAlerts(F.ticks)

\* The engine's tick effect runs when its ticks argument is a new array: for
\* the primary feed when setTicks was called, for the ancillary feed on
\* every render.
EffectRuns(ticksSet, rendered) ==
  IF kind = "main" THEN ticksSet ELSE ticksSet \/ rendered

\* A message arrives; the render that follows runs the engine's effect.
PageMessage(i, raw) ==
  LET r == IF kind = "main"
           THEN [F |-> tickListener(Feed, raw),
                 ticks |-> processTickData(Feed, raw).ticks,
                 diagnostics |-> processTickData(Feed, raw).diagnostics]
           ELSE upstoxOnmessage(Feed, raw)
      ts == TicksForAlerts(r.F)
  IN /\ es[i].readyState = "OPEN" /\ es[i].handlers
     /\ PageStep("message")
     /\ CommitFeed(r.F)
     /\ lastBatch' = [raw |-> raw, emitted |-> r.ticks,
                      diagnostics |-> r.diagnostics,
                      before |-> lastTickTimestamps, connBefore |-> conn,
                      esBefore |-> es, timersBefore |-> feedTimers,
                      at |-> now]
     /\ ticks' = ts
     /\ Commit(IF EffectRuns(Len(r.ticks) > 0, Rendered(Feed, r.F))
               THEN RunEffect(World, configurations, ts) ELSE World)

\* A pending callback of the feed hook runs; the render that follows.
PageTimerFire(t) ==
  LET F0 == [Feed EXCEPT !.timers = feedTimers \ {t}]
      F1 == CASE t.kind = "connectionTimeout" -> connectionTimeoutCallback(F0, t)
              [] t.kind = "freeze" -> freezeCallback(F0)
              [] t.kind = "reconnect" -> connectToSSE(F0)
              [] t.kind = "upstoxFreeze" -> upstoxFreezeCallback(F0)
              [] t.kind = "upstoxReconnect" -> upstoxReconnectCallback(F0)
  IN /\ now >= t.expiry
     /\ PageStep(IF t.kind \in {"freeze", "upstoxFreeze"} THEN "freeze"
                 ELSE "timer")
     /\ CommitFeed(F1)
     /\ Commit(IF EffectRuns(FALSE, Rendered(F0, F1))
               THEN RunEffect(World, configurations, ticks) ELSE World)
     /\ UNCHANGED <<ticks, lastBatch>>

\* Time passes, up to the next pending callback of the feed or the engine.
PageAdvance(d) ==
  /\ d > 0
  /\ \A t \in feedTimers : now + d <= t.expiry
  /\ Advance(d)

InitPage == InitFeedWith(MaxPageSteps, TRUE)

NextPage ==
  \/ \E i \in DOMAIN es, raw \in PageBatches : PageMessage(i, raw)
  \/ \E t \in feedTimers : PageTimerFire(t)
  \/ \E config \in PageConfigs :
       /\ 1 \notin DOMAIN configurations
       /\ updateConfiguration(1, config)
       /\ UNCHANGED dialog
  \/ \E t \in timers : TimerFire(t)
  \/ MarketFlip(1)
  \/ \E d \in {1000} \cup {t.expiry - now : t \in timers \cup feedTimers} :
       PageAdvance(d)

SpecPage == InitPage /\ [][NextPage]_vars

\* ---- the session oracle -----------------------------------------------------------
\* Instants are minutes since 2024-01-20 00:00 UTC (a Saturday); a calendar
\* day is counted from that date.  The host's time zone is its offset from
\* UTC in minutes; the exchange's zone, Asia/Kolkata, is UTC+05:30.
IST_OFFSET == 330

FirstDay == 2

HostOffsets == {-600, -300, 0, 330, 660}

MarketTypes == {"equity", "currency", "commodity", "gsec", "bonds"}

\* Exchange wall-clock times of day (minutes) at and around the session edges.
QueryTimes ==
  {0, 539, 540, 555, 556, 840, 930, 931, 960, 961, 1020, 1021, 1200, 1410,
   1411}

\* The instants at which the status is asked for: the exchange days from
\* Monday 2024-01-22 on, at the times above.
QueryInstants ==
  {d * 1440 + t - IST_OFFSET : d \in FirstDay..(FirstDay + MaxDay),
                               t \in QueryTimes}

DateTable ==
  <<"2024-01-20", "2024-01-21", "2024-01-22", "2024-01-23", "2024-01-24",
    "2024-01-25", "2024-01-26", "2024-01-27", "2024-01-28", "2024-01-29",
    "2024-01-30", "2024-01-31", "2024-02-01", "2024-02-02">>

MARKET_HOLIDAYS_2024 ==
  {"2024-01-26", "2024-03-08", "2024-03-29", "2024-04-11", "2024-04-17",
   "2024-05-01", "2024-06-17", "2024-08-15", "2024-08-26", "2024-10-02",
   "2024-10-31", "2024-11-01", "2024-11-15"}

HHMM(h, m) == [h |-> h, m |-> m]

MARKET_TIMINGS ==
  [equity |-> [preMarket |-> [start |-> HHMM(9, 0), end |-> HHMM(9, 15)],
               normal |-> [start |-> HHMM(9, 15), end |-> HHMM(15, 30)],
               postMarket |-> [start |-> HHMM(15, 30), end |-> HHMM(16, 0)]],
   currency |-> [normal |-> [start |-> HHMM(9, 0), end |-> HHMM(17, 0)]],
   commodity |-> [normal |-> [start |-> HHMM(9, 0), end |-> HHMM(23, 30)]],
   gsec |-> [normal |-> [start |-> HHMM(9, 0), end |-> HHMM(17, 0)]],
   bonds |-> [normal |-> [start |-> HHMM(9, 0), end |-> HHMM(17, 0)]]]

\* The calendar fields of an instant in a zone with the given offset.
FieldsAt(instant, offset) ==
  LET wall == instant + offset
  IN [day |-> wall \div 1440,
      time |-> HHMM((wall % 1440) \div 60, (wall % 1440) % 60)]

\* Date.getDay() of a calendar day: 0 is Sunday, 6 is Saturday.
DayOfWeek(day) == (day + 6) % 7

\* The date part of toISOString().
IsoDate(day) == DateTable[day + 1]

timeToMinutes(time) == time.h * 60 + time.m

\* Mutation: a session is never taken to run across midnight.
isTimeInRange_NoOvernight(currentTime, startTime, endTime) ==
  LET current == timeToMinutes(currentTime)
      start == timeToMinutes(startTime)
      end == timeToMinutes(endTime)
  IN current >= start /\ current <= end

isTimeInRange(currentTime, startTime, endTime) ==
  LET current == timeToMinutes(currentTime)
      start == timeToMinutes(startTime)
      end == timeToMinutes(endTime)
  IN IF end < start THEN current >= start \/ current <= end
     ELSE current >= start /\ current <= end

getNextEquitySession(currentTime) ==
  LET current == timeToMinutes(currentTime)
  IN IF current < timeToMinutes(HHMM(9, 0)) THEN "09:00 (Pre-market)"
     ELSE IF current < timeToMinutes(HHMM(9, 15)) THEN "09:15 (Normal trading)"
     ELSE IF current < timeToMinutes(HHMM(15, 30)) THEN "15:30 (Post-market)"
     ELSE "Next day 09:00 (Pre-market)"

getNextOpenTime(marketType) == "Next trading day 09:00"

Closed(marketType, reason, nextOpenTime) ==
  [marketType |-> marketType, isOpen |-> FALSE, session |-> "Closed",
   reason |-> reason, nextOpenTime |-> nextOpenTime]

Open(marketType, session, reason) ==
  [marketType |-> marketType, isOpen |-> TRUE, session |-> session,
   reason |-> reason, nextOpenTime |-> "none"]

\* getCurrentMarketStatus on a host whose zone has the offset host, at the
\* instant utc.  toLocaleString renders the exchange's wall clock; new Date
\* reads that text as a time of the host's zone; toTimeString and getDay
\* give the host's fields of it, toISOString the UTC ones.
getCurrentMarketStatus(marketType, utc, host) ==
  LET shown == FieldsAt(utc, IST_OFFSET)
      istTime == shown.day * 1440 + timeToMinutes(shown.time) - host
      currentTime == FieldsAt(istTime, host).time
      currentDate == IsoDate(FieldsAt(istTime, 0).day)
      dayOfWeek == DayOfWeek(FieldsAt(istTime, host).day)
      timings == MARKET_TIMINGS[marketType]
  IN IF dayOfWeek = 0 \/ dayOfWeek = 6
     THEN Closed(marketType, "Weekend", getNextOpenTime(marketType))
     ELSE IF currentDate \in MARKET_HOLIDAYS_2024
     THEN Closed(marketType, "Market Holiday", getNextOpenTime(marketType))
     ELSE IF marketType = "equity"
     THEN IF isTimeInRange(currentTime, timings.preMarket.start,
                           timings.preMarket.end)
          THEN Open(marketType, "Pre-market", "Pre-market session")
          ELSE IF isTimeInRange(currentTime, timings.normal.start,
                                timings.normal.end)
          THEN Open(marketType, "Open", "Normal trading session")
          ELSE IF isTimeInRange(currentTime, timings.postMarket.start,
                                timings.postMarket.end)
          THEN Open(marketType, "Post-market", "Post-market session")
          ELSE Closed(marketType, "Outside trading hours",
                      getNextEquitySession(currentTime))
     ELSE IF isTimeInRange(currentTime, timings.normal.start, timings.normal.end)
     THEN Open(marketType, "Open", "Normal trading session")
     ELSE Closed(marketType, "Outside trading hours",
                 getNextOpenTime(marketType))

InitOracle ==
  /\ InitEngine({1})
  /\ now = 0
  /\ limit = 0
  /\ DialogIdle
  /\ FeedIdle
  /\ PageIdle
  /\ clock \in [utc : QueryInstants, host : HostOffsets]
  /\ status = [marketType |-> "none"]
  /\ asked = NoQuestion
  /\ inRange = FALSE

\* A caller asks for the status of a market type.
QueryStatus(marketType) ==
  /\ status' = getCurrentMarketStatus(marketType, clock.utc, clock.host)
  /\ UNCHANGED <<clock, asked, inRange, instruments, steps, last, limit,
                 dialog, feedVars, engineState, snapshot>>

NextOracle == \E marketType \in MarketTypes : QueryStatus(marketType)

SpecOracle == InitOracle /\ [][NextOracle]_vars

\* ---- the range check on its own ---------------------------------------------------
\* Sessions the check is called with: within one day, across midnight, of one
\* minute only, and from the last minute of a day to the first of the next.
RangeSessions ==
  {[start |-> HHMM(9, 0), end |-> HHMM(23, 30)],
   [start |-> HHMM(17, 0), end |-> HHMM(2, 30)],
   [start |-> HHMM(10, 0), end |-> HHMM(10, 0)],
   [start |-> HHMM(23, 59), end |-> HHMM(0, 0)]}

TimesOfDay == {HHMM(h, m) : h \in 0..23, m \in 0..59}

InitRange ==
  /\ InitEngine({1})
  /\ now = 0
  /\ limit = 0
  /\ DialogIdle
  /\ FeedIdle
  /\ PageIdle
  /\ clock = [utc |-> 0, host |-> 0]
  /\ status = [marketType |-> "none"]
  /\ asked \in {[fn |-> "isTimeInRange", currentTime |-> t,
                  startTime |-> r.start, endTime |-> r.end] :
                   t \in TimesOfDay, r \in RangeSessions}
  /\ inRange = FALSE

\* The call returns.
CheckRange ==
  /\ asked.fn = "isTimeInRange"
  /\ inRange' = isTimeInRange(asked.currentTime, asked.startTime, asked.endTime)
  /\ asked' = [asked EXCEPT !.fn = "isTimeInRange returned"]
  /\ UNCHANGED <<clock, status, instruments, steps, last, limit, dialog,
                 feedVars, engineState, snapshot>>

NextRange == CheckRange

SpecRange == InitRange /\ [][NextRange]_vars

\* ---- the classifier of instrument names ------------------------------------------
\* A name is the sequence of its characters.
LowerCase ==
  <<"a", "b", "c", "d", "e", "f", "g", "h", "i", "j", "k", "l", "m",
    "n", "o", "p", "q", "r", "s", "t", "u", "v", "w", "x", "y", "z">>

UpperCase ==
  <<"A", "B", "C", "D", "E", "F", "G", "H", "I", "J", "K", "L", "M",
    "N", "O", "P", "Q", "R", "S", "T", "U", "V", "W", "X", "Y", "Z">>

toUpperCase(name) ==
  [i \in DOMAIN name |->
     IF \E k \in DOMAIN LowerCase : LowerCase[k] = name[i]
     THEN UpperCase[CHOOSE k \in DOMAIN LowerCase : LowerCase[k] = name[i]]
     ELSE name[i]]

\* String.prototype.includes
includes(name, word) ==
  \E i \in 0..(Len(name) - Len(word)) : SubSeq(name, i + 1, i + Len(word)) = word

CurrencyWords ==
  {<<"U", "S", "D">>,
   <<"E", "U", "R">>,
   <<"G", "B", "P">>,
   <<"J", "P", "Y">>,
   <<"U", "S", "D", "I", "N", "R">>,
   <<"E", "U", "R", "I", "N", "R">>}

CommodityWords ==
  {<<"C", "R", "U", "D", "E">>,
   <<"G", "O", "L", "D">>,
   <<"S", "I", "L", "V", "E", "R">>,
   <<"C", "O", "P", "P", "E", "R">>,
   <<"Z", "I", "N", "C">>,
   <<"A", "L", "U", "M", "I", "N", "I", "U", "M">>,
   <<"L", "E", "A", "D">>,
   <<"N", "I", "C", "K", "E", "L">>,
   <<"N", "A", "T", "U", "R", "A", "L", "G", "A", "S">>,
   <<"M", "E", "N", "T", "H", "A", "O", "I", "L">>,
   <<"C", "A", "R", "D", "A", "M", "O", "M">>,
   <<"P", "E", "P", "P", "E", "R">>}

GSEC == <<"G", "S", "E", "C">>
GOVT == <<"G", "O", "V", "T">>
BOND == <<"B", "O", "N", "D">>
CORP == <<"C", "O", "R", "P">>

getMarketTypeForInstrument(instrumentName) ==
  LET name == toUpperCase(instrumentName)
  IN IF \E word \in CurrencyWords : includes(name, word) THEN "currency"
     ELSE IF \E word \in CommodityWords : includes(name, word) THEN "commodity"
     ELSE IF includes(name, GSEC) \/ includes(name, GOVT) \/ includes(name, BOND)
     THEN "gsec"
     ELSE IF includes(name, CORP) /\ includes(name, BOND) THEN "bonds"
     ELSE "equity"

\* The names asked about: trading symbols as the feeds deliver them, in either
\* case, the names getInstrumentName makes up for a tick without a symbol,
\* the empty name and names that are no symbol at all.
InstrumentNames ==
  {<<"U", "S", "D", "I", "N", "R">>,
   <<"e", "u", "r", "i", "n", "r", "2", "4">>,
   <<"G", "B", "P", "J", "P", "Y">>,
   <<"C", "R", "U", "D", "E", "O", "I", "L">>,
   <<"g", "o", "l", "d", "m">>,
   <<"S", "i", "l", "v", "e", "r">>,
   <<"N", "I", "C", "K", "E", "L">>,
   <<"G", "S", "E", "C", "2", "0", "3", "0">>,
   <<"g", "o", "v", "t">>,
   <<"B", "O", "N", "D">>,
   <<"C", "O", "R", "P", "B", "O", "N", "D">>,
   <<"C", "o", "r", "p", " ", "B", "o", "n", "d">>,
   <<"C", "O", "R", "P">>,
   <<"N", "H", "A", "I", " ", "B", "O", "N", "D", " ", "C", "O", "R", "P">>,
   <<"I", "R", "F", "C", "-", "C", "O", "R", "P", "-", "B", "O", "N", "D">>,
   <<"G", "O", "L", "D", "B", "O", "N", "D">>,
   <<"U", "S", "D", "G", "O", "L", "D">>,
   <<"R", "E", "L", "I", "A", "N", "C", "E">>,
   <<"N", "I", "F", "T", "Y">>,
   <<"T", "O", "K", "E", "N", "_", "1">>,
   <<>>,
   <<"#", "?">>,
   <<"r", "e", "l", "i", "a", "n", "c", "e">>,
   <<"M", "I", "S", "L", "E", "A", "D", "I", "N", "G">>}

\* The instants at which a name is asked about: a Monday, a Friday holiday
\* and a Saturday, each at all the times of day of QueryTimes.
ClassifyInstants ==
  {d * 1440 + t - IST_OFFSET : d \in {FirstDay, FirstDay + 4, FirstDay + 5},
                               t \in QueryTimes}

InitClassify ==
  /\ InitEngine({1})
  /\ now = 0
  /\ limit = 0
  /\ DialogIdle
  /\ FeedIdle
  /\ PageIdle
  /\ clock \in [utc : ClassifyInstants, host : {330}]
  /\ status = [marketType |-> "none"]
  /\ asked \in {[fn |-> "getDetailedMarketStatus", instrumentName |-> n] :
                   n \in InstrumentNames}
  /\ inRange = FALSE

\* getDetailedMarketStatus(instrumentName) returns: the status of the name's
\* market type, with the type and the name.
DetailedStatus ==
  /\ asked.fn = "getDetailedMarketStatus"
  /\ LET marketType == getMarketTypeForInstrument(asked.instrumentName)
     IN status' = getCurrentMarketStatus(marketType, clock.utc, clock.host)
  /\ asked' = [asked EXCEPT !.fn = "getDetailedMarketStatus returned"]
  /\ UNCHANGED <<clock, inRange, instruments, steps, last, limit, dialog,
                 feedVars, engineState, snapshot>>

NextClassify == DetailedStatus

SpecClassify == InitClassify /\ [][NextClassify]_vars

\* ---- a market that closes and reopens ---------------------------------------------
\* One instrument under respected hours: ticks of two prices, closures and
\* reopenings at any moment, pauses longer than the status re-check interval.
ClosureConfig ==
  [enabled |-> TRUE, deviation |-> 1, duration |-> 20,
   respectMarketHours |-> TRUE]

ClosurePrices == {10, 12}

ClosureSteps == {61000}

InitClosure ==
  /\ InitEngine({1})
  /\ now = 0
  /\ limit = MaxClosureSteps
  /\ DialogIdle
  /\ FeedIdle
  /\ OracleIdle
  /\ PageIdle

NextClosure ==
  \/ /\ configurations = << >>
     /\ updateConfiguration(1, ClosureConfig)
     /\ UNCHANGED dialog
  \/ \E price \in ClosurePrices : NewTick(1, price)
  \/ \E t \in timers : TimerFire(t)
  \/ MarketFlip(1)
  \/ \E d \in ClosureSteps \cup {t.expiry - now : t \in timers} :
       d > 0 /\ Advance(d)

SpecClosure == InitClosure /\ [][NextClosure]_vars

TypeOK ==
  /\ DOMAIN configurations \subseteq Tokens
  /\ DOMAIN symbolStates \subseteq Tokens
  /\ inactiveSymbols \subseteq Tokens
  /\ Len(ticks) <= MaxTicksStored

\* ---- properties ------------------------------------------------------------
TimerOf(id) == CHOOSE t \in arms : t.id = id

PendingFor(k) == {t \in timers : t.tick.instrument_token = k}

LatestPrice(k) == latestTicks(ticks).val[k].last_price

AlertsOf(id) == {i \in DOMAIN alerts : alerts[i].timerId = id}

\* C1: for every instrument at most one duration timer is pending, and at
\* most one alert is recorded between two consecutive (re-)arms.
C1_OneTimerOneAlert ==
  \A k \in Tokens : Cardinality(PendingFor(k)) <= 1 /\ alertsSinceArm[k] <= 1

\* An instrument that alerted and whose monitor was armed again afterwards.
C1_Witness ==
  \E t \in timers : \E i \in DOMAIN alerts :
    /\ alerts[i].instrumentToken = t.tick.instrument_token
    /\ alerts[i].timerId < t.id

\* C2: a timer that was armed when a tick beyond the deviation was evaluated
\* is no longer pending and never records an alert.
C2_MovementCancels ==
  \A s \in superseded :
    s.why = "move" => s.id \notin alerted /\ (\A t \in timers : t.id # s.id)

\* A movement tick evaluated strictly inside the episode of an armed timer.
C2_Witness ==
  \E s \in superseded :
    /\ s.why = "move"
    /\ s.at > TimerOf(s.id).armedAt
    /\ s.at < TimerOf(s.id).expiry

\* C3: a monitor that stays armed for the whole duration records exactly one
\* alert at the moment the duration elapses; its baseline is the price of the
\* arming tick, and when only one price was seen the range is that price.
C3_ScenarioA ==
  /\ \A k \in DOMAIN symbolStates :
       LET id == objs[symbolStates[k]].timerId
       IN id # 0 => \/ \E t \in timers : t.id = id /\ now <= t.expiry
                    \/ id \in alerted
  /\ (last.op = "fire" /\ last.added) =>
       /\ alerts # << >>
       /\ LET a == alerts[1]
              t == TimerOf(last.tid)
          IN /\ a.timerId = last.tid
             /\ Cardinality(AlertsOf(last.tid)) = 1
             /\ a.timestamp = t.armedAt + a.duration * 1000
             /\ a.baselinePrice = t.tick.last_price
             /\ Cardinality(a.seen) = 1 =>
                  a.priceRange = [min |-> t.tick.last_price,
                                  max |-> t.tick.last_price]

\* An alert after ticks of one single price kept arriving during the episode.
C3_Witness ==
  /\ last.op = "fire" /\ last.added
  /\ Cardinality(alerts[1].seen) = 1
  /\ \E i \in DOMAIN ticks : ticks[i].receivedAt > TimerOf(last.tid).armedAt

\* C4: an alert is recorded no earlier than one full duration after the most
\* recent movement tick, and never at the expiry time of the timer that was
\* pending before a later movement.
C4_RestartAfterMovement ==
  /\ \A i \in DOMAIN alerts :
       alerts[i].lastMoveAt >= 0 =>
         alerts[i].timestamp >= alerts[i].lastMoveAt + alerts[i].duration * 1000
  /\ \A s \in superseded :
       (s.why = "move" /\ s.at > TimerOf(s.id).armedAt) =>
         \A i \in DOMAIN alerts :
           alerts[i].instrumentToken = TimerOf(s.id).tick.instrument_token
             => alerts[i].timestamp # TimerOf(s.id).expiry

\* An alert recorded after a movement that came later than the arming tick.
C4_Witness ==
  \E i \in DOMAIN alerts : \E s \in superseded :
    /\ s.why = "move"
    /\ s.at > TimerOf(s.id).armedAt
    /\ alerts[i].lastMoveAt = s.at
    /\ alerts[i].timerId > s.id

\* C5: with respectMarketHours, an evaluation while the market is closed
\* leaves no pending timer, and no alert is recorded while it is closed.
C5_ClosedMarketSilent ==
  /\ \A k \in Tokens :
       (/\ branch[k] # "none"
        /\ k \in DOMAIN configurations
        /\ configurations[k].enabled
        /\ configurations[k].respectMarketHours
        /\ ~marketOpen[k]) => PendingFor(k) = {}
  /\ \A i \in DOMAIN alerts :
       TimerOf(alerts[i].timerId).config.respectMarketHours
         => alerts[i].marketOpen

\* A pending timer was cancelled by a tick evaluated while the market is closed.
C5_Witness ==
  \E k \in Tokens : \E s \in superseded :
    /\ branch[k] = "closed"
    /\ s.why = "closed" /\ s.at = now
    /\ TimerOf(s.id).tick.instrument_token = k

\* C6: the first tick evaluated after the market reopened, for a monitor that
\* observed the close, resets the baseline to that tick's price, clears the
\* history to that tick and re-arms the timer.
C6_ReopenResets ==
  \A k \in Tokens :
    reopened[k] =>
      /\ k \in DOMAIN symbolStates
      /\ LET st == objs[symbolStates[k]]
         IN /\ st.baselinePrice = LatestPrice(k)
            /\ \A i \in DOMAIN st.priceHistory :
                 st.priceHistory[i] = [price |-> LatestPrice(k), timestamp |-> now]
            /\ \E t \in timers : t.id = st.timerId /\ t.armedAt = now

\* C7: a configuration update destroys the monitor (timer cancelled, inactive
\* flag cleared); the monitor recreated under an enabled configuration starts
\* from the latest price; no timer of the previous configuration survives.
C7_ConfigUpdateResets ==
  /\ last.op = "config" =>
       LET k == last.tok
       IN /\ k \notin inactiveSymbols
          /\ k \in DOMAIN symbolStates =>
               /\ objs[symbolStates[k]].born = steps - 1
               /\ configurations[k].enabled
               /\ objs[symbolStates[k]].baselinePrice = LatestPrice(k)
          /\ (configurations[k].enabled /\ k \in DOMAIN latestTicks(ticks).val)
               => k \in DOMAIN symbolStates
  /\ \A s \in superseded : s.why = "config" => s.id \notin alerted
  /\ \A t \in timers :
       /\ t.tick.instrument_token \in DOMAIN configurations
       /\ t.config = configurations[t.tick.instrument_token]

\* An armed monitor was reconfigured and recreated by the same operation.
C7_Witness ==
  /\ last.op = "config"
  /\ last.tok \in DOMAIN symbolStates
  /\ \E s \in superseded :
       /\ s.why = "config" /\ s.at = now
       /\ TimerOf(s.id).tick.instrument_token = last.tok
       /\ TimerOf(s.id).config # configurations[last.tok]

\* C8: the timer callback looks at the market again: closed under respected
\* hours means no alert, monitor destroyed, instrument not inactive; otherwise
\* an alert is recorded and the instrument is marked inactive.
C8_FireRevalidatesMarket ==
  last.op = "fire" =>
    LET t == TimerOf(last.tid)
        k == last.tok
    IN IF t.config.respectMarketHours /\ ~marketOpen[k]
       THEN /\ ~last.added /\ ~last.marked /\ ~last.kept
            /\ k \notin inactiveSymbols
            /\ AlertsOf(last.tid) = {}
       ELSE /\ last.added /\ last.marked /\ last.kept
            /\ alerts # << >>
            /\ alerts[1].timerId = last.tid

\* A timer fired while the market was closed under respected hours.
C8_Witness ==
  /\ last.op = "fire"
  /\ TimerOf(last.tid).config.respectMarketHours
  /\ ~marketOpen[last.tok]

\* C9: an alert carries the price of the most recent tick of the instrument
\* as currentPrice, the min/max of the prices of the episode as priceRange and
\* the duration and deviation in effect.
C9_AlertContents ==
  (last.op = "fire" /\ last.added) =>
    LET a == alerts[1]
        k == last.tok
    IN /\ a.currentPrice = LatestPrice(k)
       /\ \A p \in a.seen : a.priceRange.min <= p /\ p <= a.priceRange.max
       /\ a.priceRange.min \in a.seen /\ a.priceRange.max \in a.seen
       /\ a.duration = configurations[k].duration
       /\ a.deviation = configurations[k].deviation

\* C10: a cancelled or superseded timer never acts: every pending timer is
\* the current timer of a live monitor, and no superseded timer is pending,
\* fires or records an alert.
C10_StaleTimerNeverActs ==
  /\ \A t \in timers :
       /\ t.tick.instrument_token \in DOMAIN symbolStates
       /\ symbolStates[t.tick.instrument_token] = t.sid
       /\ objs[t.sid].timerId = t.id
  /\ \A s \in superseded :
       /\ s.id \notin alerted
       /\ \A t \in timers : t.id # s.id
       /\ last.op = "fire" => last.tid # s.id

\* The expiry time of a timer superseded before it expired has passed.
C10_Witness ==
  \E s \in superseded :
    /\ s.at < TimerOf(s.id).expiry
    /\ now >= TimerOf(s.id).expiry

\* C17: the alert log is most-recent-first and capped at 100: it holds the
\* min(n, 100) most recently recorded alerts, the latest first, where n is
\* the number of alerts recorded since the log was last cleared.
C17_LogCapped ==
  LET n == Len(recorded)
      k == Min2(n, 100)
  IN /\ Len(alerts) = k
     /\ \A i \in 1..k : alerts[i].timerId = recorded[n - i + 1]

\* More than 100 alerts were recorded: the oldest ones have been evicted.
C17_Witness == Len(recorded) > 100 /\ Len(alerts) = 100

\* C18: a tick evaluated under a missing or disabled configuration leaves the
\* instrument without monitor, without pending timer and outside the inactive
\* set; when it had no monitor before the tick, the tick changes nothing for
\* it (and nothing at all when it is the only instrument of the feed).
C18_DisabledLeavesNothing ==
  /\ [](\A k \in Tokens :
          branch[k] = "disabled" =>
            /\ k \notin DOMAIN configurations \/ ~configurations[k].enabled
            /\ k \notin DOMAIN symbolStates
            /\ PendingFor(k) = {}
            /\ k \notin inactiveSymbols)
  /\ [][\A k \in Tokens :
          (/\ last'.op = "tick"
           /\ branch'[k] = "disabled"
           /\ k \notin DOMAIN symbolStates) =>
            /\ k \notin DOMAIN symbolStates'
            /\ PendingFor(k)' = PendingFor(k)
            /\ (k \in inactiveSymbols') = (k \in inactiveSymbols)
            /\ alerts' = alerts
            /\ DOMAIN latestTicks(ticks').val = {k} =>
                 UNCHANGED <<symbolStates, objs, timers, inactiveSymbols>>]_vars

\* A tick of an instrument that was armed before its configuration was
\* disabled, while the other instrument is being monitored.
C18_Witness ==
  /\ last.op = "tick"
  /\ branch[last.tok] = "disabled"
  /\ last.tok \in DOMAIN configurations
  /\ \E t \in arms : t.tick.instrument_token = last.tok
  /\ \E s \in superseded :
       s.why = "config" /\ TimerOf(s.id).tick.instrument_token = last.tok

\* C15: a configuration entered with a non-positive deviation or duration is
\* rejected: after the update the map still holds the instrument's prior
\* configuration and its monitor is the one it had before.
C15_InvalidRejected ==
  (/\ last.op = "config"
   /\ last.tok \in DOMAIN dialog.prior
   /\ \/ dialog.typed.given /\ ~dialog.typed.nan /\ dialog.typed.val <= 0
      \/ dialog.localConfig.deviation <= 0
      \/ dialog.localConfig.duration <= 0) =>
    /\ configurations[last.tok] = dialog.prior[last.tok]
    /\ IF dialog.priorSid = 0 THEN last.tok \notin DOMAIN symbolStates
       ELSE /\ last.tok \in DOMAIN symbolStates
            /\ symbolStates[last.tok] = dialog.priorSid

\* ---- properties of the feed connectors -----------------------------------------
ReconnectKinds == {"reconnect", "upstoxReconnect"}

FreezeKinds == {"freeze", "upstoxFreeze"}

\* Pending watchdog and reconnect timers, by what they are and when they fire.
WatchedTimers(ts) ==
  {[kind |-> t.kind, expiry |-> t.expiry] :
     t \in {u \in ts : u.kind \in ReconnectKinds \cup FreezeKinds}}

\* C11: once the hook's cleanup has run, no timer callback of the feed has any
\* effect: no frozen flag, no connection-timeout action, no new subscription.
C11_NoCallbackAfterTeardown == late = {}

\* C12: every reconnect is scheduled min(5 s * 2^k, 30 s) ahead, k being the
\* number of failed attempts since the last successful open (0 right after it).
C12_ReconnectDelay ==
  \A t \in feedTimers :
    t.kind \in ReconnectKinds => t.delay = Min2(5000 * 2^t.k, 30000)

\* C13: before the cleanup, a subscription that was ended by an error or closed
\* by the connection-timeout watchdog always has a reconnect pending.
C13_ReconnectAfterLoss ==
  (mounted /\ es[conn.eventSourceRef].readyState = "CLOSED") =>
    \E t \in feedTimers : t.kind \in ReconnectKinds

\* C14: a parsed batch of n entries, m of them malformed, emits n - m ticks,
\* the same as the batch without the malformed entries, and leaves an error
\* diagnostic when m > 0; a batch that cannot be parsed is reported as a data
\* error and changes neither the connection state nor the pending freeze and
\* reconnect timers.
C14_MalformedSkipped ==
  last.op = "message" =>
    LET raw == lastBatch.raw
        n == Len(raw.entries)
        wellFormed == SelectSeq(raw.entries, LAMBDA e : e.ok)
        m == n - Len(wellFormed)
        expected == IF kind = "main"
                    THEN ProcessEntries(wellFormed, 1, lastBatch.before, << >>)
                    ELSE UpstoxEntries(wellFormed, 1, lastBatch.before, << >>)
    IN IF raw.parsable
       THEN /\ Len(lastBatch.emitted) = n - m
            /\ lastBatch.emitted = expected.ticks
            /\ m > 0 => \E i \in DOMAIN lastBatch.diagnostics :
                          lastBatch.diagnostics[i] \in
                            {"debug: Error processing data",
                             "debug: Skipped invalid tick", "alert: data"}
       ELSE /\ \E i \in DOMAIN lastBatch.diagnostics :
                 lastBatch.diagnostics[i] = "alert: data"
            /\ feedAlerts # << >> /\ feedAlerts[1].type = "data"
            /\ conn.connectionStatus = lastBatch.connBefore.connectionStatus
            /\ conn.isConnected = lastBatch.connBefore.isConnected
            /\ es = lastBatch.esBefore
            /\ WatchedTimers(feedTimers) = WatchedTimers(lastBatch.timersBefore)

\* C16: the delay of an emitted tick is never negative: 0 for an instrument
\* not seen before, and the gap to the instrument's last seen timestamp when
\* the tick's timestamp is not older than that one.
C16_DelayNonNegative ==
  last.op = "message" =>
    \A j \in DOMAIN lastBatch.emitted :
      LET tick == lastBatch.emitted[j]
          k == tick.instrument_token
          earlier == {i \in 1..(j - 1) :
                        lastBatch.emitted[i].instrument_token = k}
          seenBefore == earlier # {} \/ k \in DOMAIN lastBatch.before
          prev == IF earlier # {}
                  THEN lastBatch.emitted[CHOOSE i \in earlier :
                                           \A h \in earlier : h <= i].timestamp
                  ELSE lastBatch.before[k]
      IN /\ tick.delay >= 0
         /\ ~seenBefore => tick.delay = 0
         /\ (seenBefore /\ tick.timestamp >= prev) =>
              tick.delay = tick.timestamp - prev

\* ---- properties of the session oracle --------------------------------------------
\* The exchange's calendar day and time of day at the instant of the query.
ExchangeDay == FieldsAt(clock.utc, IST_OFFSET).day

ExchangeMinutes == timeToMinutes(FieldsAt(clock.utc, IST_OFFSET).time)

ExchangeWeekend == DayOfWeek(ExchangeDay) \in {0, 6}

ExchangeHoliday == IsoDate(ExchangeDay) \in MARKET_HOLIDAYS_2024

\* C19: on a Saturday or Sunday of the exchange's calendar, and on a date of
\* the exchange's calendar that is in the holiday list, every market type is
\* reported closed, whatever the time of day and the host's time zone.
C19_ClosedOnWeekendAndHoliday ==
  (status.marketType # "none" /\ (ExchangeWeekend \/ ExchangeHoliday)) =>
    ~status.isOpen

\* C20: on a weekday of the exchange's calendar that is no holiday, equity is
\* open exactly from 09:00 to 16:00: Pre-market up to 09:15, the normal
\* session from 09:16 to 15:30, Post-market from 15:31; the other markets are
\* open exactly within their normal session; a closed result names the next
\* opening.
C20_SessionsOnTradingDay ==
  (status.marketType # "none" /\ ~ExchangeWeekend /\ ~ExchangeHoliday) =>
    LET t == ExchangeMinutes
        lastMinute == CASE status.marketType = "commodity" -> 23 * 60 + 30
                        [] status.marketType = "equity" -> 16 * 60
                        [] OTHER -> 17 * 60
    IN /\ status.isOpen = (9 * 60 <= t /\ t <= lastMinute)
       /\ status.marketType = "equity" =>
            /\ (9 * 60 <= t /\ t <= 9 * 60 + 15) => status.session = "Pre-market"
            /\ (9 * 60 + 16 <= t /\ t <= 15 * 60 + 30) => status.session = "Open"
            /\ (15 * 60 + 31 <= t /\ t <= 16 * 60) => status.session = "Post-market"
       /\ (status.isOpen /\ status.marketType # "equity") => status.session = "Open"
       /\ ~status.isOpen =>
            /\ status.session = "Closed"
            /\ status.nextOpenTime # "none"

\* The idle timeout of the feed the run is about.
IdleTimeout == IF kind = "main" THEN FREEZE_THRESHOLD ELSE FREEZE_TIMEOUT

\* C21: right after a subscription of the feed opened, the connector state is
\* connected and a freeze watchdog is pending that fires one idle timeout
\* (5 s primary feed, 30 s ancillary feed) later.
C21_OpenArmsWatchdog ==
  (last.op = "open" /\ mounted) =>
    /\ conn.connectionStatus = "connected"
    /\ \E t \in feedTimers : t.kind \in FreezeKinds /\ t.expiry = now + IdleTimeout

FreezeWatchdogs == {t \in feedTimers : t.kind \in FreezeKinds}

\* C22: at most one freeze watchdog is pending; after a message that was
\* received and parsed the watchdog is pending one idle timeout ahead and the
\* frozen flag is clear; a watchdog that sets the flag does so no earlier than
\* one idle timeout after the last message.
C22_MessageRearmsWatchdog ==
  /\ Cardinality(FreezeWatchdogs) <= 1
  /\ (last.op = "message" /\ lastBatch.raw.parsable) =>
       /\ \E t \in FreezeWatchdogs : t.expiry = now + IdleTimeout
       /\ ~conn.isFrozen
  /\ (last.op = "timer" /\ conn.isFrozen /\ lastBatch.at > 0) =>
       now - lastBatch.at >= IdleTimeout

\* ---- properties of the page -------------------------------------------------------
\* Baseline and history of every monitor, as they are now or were in a snapshot.
MonitorsOf(map, heap) ==
  [k \in DOMAIN map |-> [baselinePrice |-> heap[map[k]].baselinePrice,
                         priceHistory |-> heap[map[k]].priceHistory]]

\* C23: when the freeze watchdog has fired, the frozen flag is set and the
\* latest diagnostic is a high-severity freeze alert, while the connection
\* state, the subscriptions, the attempt counter and every monitor's baseline,
\* history and pending timer are what they were before.
C23_FreezeLeavesRestAlone ==
  last.op = "freeze" =>
    /\ conn.isFrozen
    /\ feedAlerts # << >>
    /\ feedAlerts[1] = [type |-> "freeze", severity |-> "high"]
    /\ conn.connectionStatus = snapshot.conn.connectionStatus
    /\ conn.isConnected = snapshot.conn.isConnected
    /\ conn.eventSourceRef = snapshot.conn.eventSourceRef
    /\ conn.connectionAttempts = snapshot.conn.connectionAttempts
    /\ es = snapshot.es
    /\ MonitorsOf(symbolStates, objs) = MonitorsOf(snapshot.symbolStates, snapshot.objs)
    /\ timers = snapshot.timers

\* ---- properties of the armed monitoring path ----------------------------------
\* C24: a tick evaluated on the armed path whose price is further than the
\* deviation from the baseline leaves the baseline at its price, a timer armed
\* now for the full duration and the instrument outside the inactive set; one
\* within the deviation (equality included) leaves monitor, baseline, timer
\* and inactive flag as they were and only appends itself to the history.
C24_MovementOrSteady ==
  /\ [](\A k \in Tokens :
          (last.op = "tick" /\ branch[k] = "moved") =>
            /\ k \in DOMAIN symbolStates
            /\ objs[symbolStates[k]].baselinePrice = LatestPrice(k)
            /\ PendingFor(k) =
                 {t \in timers : /\ t.id = objs[symbolStates[k]].timerId
                                 /\ t.armedAt = now
                                 /\ t.expiry = now + configurations[k].duration * 1000
                                 /\ t.tick.last_price = LatestPrice(k)}
            /\ Cardinality(PendingFor(k)) = 1
            /\ k \notin inactiveSymbols)
  /\ [][\A k \in Tokens :
          (last'.op = "tick" /\ branch'[k] = "steady") =>
            /\ k \in DOMAIN symbolStates /\ k \in DOMAIN symbolStates'
            /\ symbolStates'[k] = symbolStates[k]
            /\ Abs(LatestPrice(k)' - objs[symbolStates[k]].baselinePrice)
                 <= configurations[k].deviation
            /\ objs'[symbolStates[k]].baselinePrice =
                 objs[symbolStates[k]].baselinePrice
            /\ objs'[symbolStates[k]].timerId = objs[symbolStates[k]].timerId
            /\ PendingFor(k)' = PendingFor(k)
            /\ (k \in inactiveSymbols') = (k \in inactiveSymbols)
            /\ LET old == FilterSeq(HistoryOf(k), now - HISTORY_RETENTION)
                   new == HistoryOf(k)'
               IN /\ Len(new) > Len(old)
                  /\ SubSeq(new, 1, Len(old)) = old
                  /\ \A i \in (Len(old) + 1)..Len(new) :
                       new[i] = [price |-> LatestPrice(k)', timestamp |-> now]]_vars

\* A movement tick for an instrument that was marked inactive by the alert of
\* the timer armed just before.
C24_Witness ==
  /\ last.op = "tick"
  /\ branch[1] = "moved"
  /\ alerts # << >>
  /\ alerts[1].timerId + 1 = objs[symbolStates[1]].timerId
  /\ TimerOf(alerts[1].timerId).sid = symbolStates[1]

\* C25: a tick evaluated for an existing monitor while the market is closed
\* under respected hours takes a market-closed branch: the monitor stays the
\* same object with the same baseline and the same history, its timer is no
\* longer pending, and alerts and the inactive flag are as before.
C25_ClosedKeepsMonitor ==
  /\ [](\A k \in Tokens :
          branch[k] \in {"closed", "close"} =>
            /\ configurations[k].enabled /\ configurations[k].respectMarketHours
            /\ ~marketOpen[k]
            /\ k \in DOMAIN symbolStates
            /\ objs[symbolStates[k]].timerId = 0
            /\ PendingFor(k) = {})
  /\ [][\A k \in DOMAIN symbolStates :
          (/\ last'.op = "tick"
           /\ k \in DOMAIN latestTicks(ticks').val
           /\ k \in DOMAIN configurations
           /\ configurations[k].enabled /\ configurations[k].respectMarketHours
           /\ ~marketOpen[k]) =>
            /\ branch'[k] \in {"closed", "close"}
            /\ k \in DOMAIN symbolStates'
            /\ symbolStates'[k] = symbolStates[k]
            /\ objs'[symbolStates[k]].baselinePrice =
                 objs[symbolStates[k]].baselinePrice
            /\ objs'[symbolStates[k]].priceHistory =
                 objs[symbolStates[k]].priceHistory
            /\ (k \in inactiveSymbols') = (k \in inactiveSymbols)
            /\ \A i \in DOMAIN alerts' :
                 alerts'[i].instrumentToken = k => \E j \in DOMAIN alerts :
                                                     alerts[j] = alerts'[i]]_vars

\* A tick cancelled the pending timer of a monitor whose history had grown,
\* because the market had closed.
C25_Witness ==
  /\ last.op = "tick"
  /\ branch[1] \in {"closed", "close"}
  /\ Len(objs[symbolStates[1]].priceHistory) >= 2
  /\ \E s \in superseded :
       /\ s.why \in {"closed", "close"} /\ s.at = now
       /\ TimerOf(s.id).tick.instrument_token = 1

\* C26: every monitor, whether in the map or only held by a pending timer,
\* has a history of 1 to 100 entries; after a tick evaluated on the armed path
\* every entry is younger than the retention window; the range of an alert is
\* taken over a history that is not empty.
C26_HistoryBounded ==
  /\ \A s \in DOMAIN objs :
       /\ Len(objs[s].priceHistory) >= 1
       /\ Len(objs[s].priceHistory) <= HISTORY_CAP
  /\ \A k \in DOMAIN symbolStates :
       (last.op = "tick" /\ branch[k] \in {"moved", "steady"}) =>
         \A i \in DOMAIN HistoryOf(k) :
           HistoryOf(k)[i].timestamp > now - HISTORY_RETENTION
  /\ (last.op = "fire" /\ last.added) =>
       /\ last.tok \in DOMAIN symbolStates
       /\ \E i \in DOMAIN HistoryOf(last.tok) :
            HistoryOf(last.tok)[i].price = alerts[1].priceRange.min
       /\ \E i \in DOMAIN HistoryOf(last.tok) :
            HistoryOf(last.tok)[i].price = alerts[1].priceRange.max

\* A timer fired and recorded an alert over a full history whose oldest
\* entries had been evicted by the cap.
C26_Witness ==
  /\ last.op = "fire" /\ last.added
  /\ Len(HistoryOf(1)) = HISTORY_CAP
  /\ HistoryOf(1)[1].timestamp > 0
  /\ alerts[1].priceRange.min < alerts[1].priceRange.max

\* ---- properties of the range check -------------------------------------------------
\* C27: for every time of day t, a session whose end is earlier than its start
\* contains t iff t >= start or t <= end, any other session iff
\* start <= t <= end, both bounds included (times compared as minutes of the day).
C27_RangeCheck ==
  asked.fn = "isTimeInRange returned" =>
    LET t == asked.currentTime.h * 60 + asked.currentTime.m
        start == asked.startTime.h * 60 + asked.startTime.m
        end == asked.endTime.h * 60 + asked.endTime.m
    IN /\ end < start => (inRange <=> (t >= start \/ t <= end))
       /\ end >= start => (inRange <=> (start <= t /\ t <= end))
       /\ t \in {start, end} => inRange

\* A time after midnight inside a session that began the evening before.
C27_Witness ==
  /\ asked.fn = "isTimeInRange returned"
  /\ asked.startTime = HHMM(17, 0) /\ asked.endTime = HHMM(2, 30)
  /\ asked.currentTime = HHMM(2, 30)
  /\ inRange

\* ---- properties of the classifier --------------------------------------------------
\* C28: a name is classified as currency, commodity, gsec or bonds only when
\* its upper-cased form holds a keyword of that set, and as equity when it
\* holds no keyword at all; the status returned is the one of that market
\* type at the instant of the call; and every market type that has a timing
\* table, bonds included, is the class of some name.
C28_ClassifyByKeyword ==
  asked.fn = "getDetailedMarketStatus returned" =>
    LET name == toUpperCase(asked.instrumentName)
        currency == \E word \in CurrencyWords : includes(name, word)
        commodity == \E word \in CommodityWords : includes(name, word)
        gsec == \E word \in {GSEC, GOVT, BOND} : includes(name, word)
        bonds == includes(name, CORP) /\ includes(name, BOND)
    IN /\ status.marketType \in MarketTypes
       /\ status.marketType = "currency" => currency
       /\ status.marketType = "commodity" => commodity
       /\ status.marketType = "gsec" => gsec
       /\ status.marketType = "bonds" => bonds
       /\ status.marketType = "equity" <=>
            ~(currency \/ commodity \/ gsec \/ bonds)
       /\ status = getCurrentMarketStatus(status.marketType, clock.utc,
                                          clock.host)
       /\ \A marketType \in DOMAIN MARKET_TIMINGS :
            \E n \in InstrumentNames :
              getMarketTypeForInstrument(n) = marketType

\* ---- properties of the reduction to one tick per instrument ------------------------
\* The ticks of the last message as the engine gets them.
BatchForAlerts ==
  IF kind = "main" THEN lastBatch.emitted
  ELSE upstoxTicksForAlerts(lastBatch.emitted)

\* The last entry of instrument k in the last message.
LastEntryOf(k) ==
  LET mine == {i \in DOMAIN BatchForAlerts :
                 BatchForAlerts[i].instrument_token = k}
  IN BatchForAlerts[CHOOSE i \in mine : \A j \in mine : j <= i]

\* C29: after a message that yields ticks, the engine has evaluated one tick
\* for each instrument of the message: none of the instrument's ticks was
\* received later, and of the entries of the instrument in the message it is
\* the last one; the monitor's history entry written by the evaluation
\* carries that entry's price.
C29_LatestEntryEvaluated ==
  (last.op = "message" /\ Len(lastBatch.emitted) > 0) =>
    \A i \in DOMAIN BatchForAlerts :
      LET k == BatchForAlerts[i].instrument_token
          evaluated == latestTicks(ticks).val[k]
      IN /\ \A j \in DOMAIN ticks :
              ticks[j].instrument_token = k =>
                ticks[j].receivedAt <= evaluated.receivedAt
         /\ evaluated = LastEntryOf(k)
         /\ branch[k] \in {"create", "moved", "steady"} =>
              HistoryOf(k)[Len(HistoryOf(k))].price = LastEntryOf(k).last_price

\* ---- properties of the partition per instrument --------------------------------------
\* The monitor of instrument k: absent, or its fields.
MonitorOf(k, map, heap) ==
  IF k \in DOMAIN map
  THEN [present |-> TRUE, baselinePrice |-> heap[map[k]].baselinePrice,
        priceHistory |-> heap[map[k]].priceHistory,
        wasMarketOpen |-> heap[map[k]].wasMarketOpen,
        lastMarketStatusCheck |-> heap[map[k]].lastMarketStatusCheck,
        timerId |-> heap[map[k]].timerId]
  ELSE [present |-> FALSE]

ConfigOf(k, cfgs) ==
  IF k \in DOMAIN cfgs THEN [present |-> TRUE, config |-> cfgs[k]]
  ELSE [present |-> FALSE]

\* C30: a tick, a timer firing or a configuration update of one instrument
\* leaves the monitor, the pending timer, the configuration and the inactive
\* flag of every other instrument as they were.
C30_OtherInstrumentsUntouched ==
  [][\A k \in Tokens :
       (last'.op \in {"tick", "fire", "config"} /\ last'.tok # k) =>
         /\ MonitorOf(k, symbolStates, objs)' = MonitorOf(k, symbolStates, objs)
         /\ PendingFor(k)' = PendingFor(k)
         /\ ConfigOf(k, configurations)' = ConfigOf(k, configurations)
         /\ (k \in inactiveSymbols') = (k \in inactiveSymbols)]_vars

\* ---- properties of the ancillary feed's adapter ------------------------------------
\* C31: on the ancillary feed two ticks of different instrument keys reach
\* the engine under different tokens, so that each key has a monitor of its own.
C31_AdapterInjective ==
  kind = "upstox" =>
    \A i \in DOMAIN feedTicks : \A j \in DOMAIN feedTicks :
      feedTicks[i].instrument_token # feedTicks[j].instrument_token =>
        /\ ticks[i].instrument_token # ticks[j].instrument_token
        /\ Cardinality(DOMAIN latestTicks(ticks).val) >= 2

\* ---- properties of the monitoring's progress -----------------------------------------
\* C32: when the status re-check has run in the evaluation of a tick within
\* the deviation, for an enabled instrument whose market is open, the
\* instrument's duration timer is pending unless an alert was recorded since
\* the monitor was last armed: a monitor whose timer a closure cancelled is
\* armed again by then, so that the alert is eventually recorded while such
\* ticks keep arriving.
C32_ArmedAfterRecheck ==
  [][\A k \in Tokens :
       (/\ last'.op = "tick" /\ branch'[k] = "steady"
        /\ k \in DOMAIN symbolStates
        /\ symbolStates'[k] = symbolStates[k]
        /\ objs'[symbolStates[k]].lastMarketStatusCheck
             # objs[symbolStates[k]].lastMarketStatusCheck) =>
         (PendingFor(k)' # {} \/ alertsSinceArm'[k] >= 1)]_vars

\* ---- properties of the retained prices -----------------------------------------------
\* C33: every price in a monitor's history lies within the configured
\* deviation of the monitor's baseline, and every recorded alert has
\* baseline - deviation <= priceRange.min <= priceRange.max <= baseline + deviation.
C33_HistoryWithinDeviation ==
  /\ \A k \in DOMAIN symbolStates :
       /\ k \in DOMAIN configurations
       /\ \A i \in DOMAIN HistoryOf(k) :
            Abs(HistoryOf(k)[i].price - objs[symbolStates[k]].baselinePrice)
              <= configurations[k].deviation
  /\ \A i \in DOMAIN alerts :
       /\ alerts[i].baselinePrice - alerts[i].deviation <= alerts[i].priceRange.min
       /\ alerts[i].priceRange.min <= alerts[i].priceRange.max
       /\ alerts[i].priceRange.max <= alerts[i].baselinePrice + alerts[i].deviation

\* An alert whose history held a price other than the baseline, on the edge
\* of the deviation.
C33_Witness ==
  \E i \in DOMAIN alerts :
    /\ alerts[i].priceRange.min < alerts[i].priceRange.max
    /\ alerts[i].priceRange.min = alerts[i].baselinePrice - alerts[i].deviation

\* ---- properties of the inactive set ----------------------------------------------------
\* C34: every instrument in the inactive set has a monitor and an enabled
\* configuration, and an instrument enters the set only in the step in which
\* its timer fires and an alert for it is recorded.
C34_InactiveHasMonitor ==
  /\ [](\A k \in inactiveSymbols :
          /\ k \in DOMAIN symbolStates
          /\ k \in DOMAIN configurations
          /\ configurations[k].enabled)
  /\ [][\A k \in Tokens :
          (k \notin inactiveSymbols /\ k \in inactiveSymbols') =>
            /\ last'.op = "fire" /\ last'.tok = k /\ last'.added
            /\ Len(alerts') > 0
            /\ alerts'[1].instrumentToken = k
            /\ alerts'[1].timestamp = now]_vars

\* An instrument marked inactive by the alert just recorded for it.
C34_Witness ==
  /\ last.op = "fire" /\ last.added
  /\ last.tok \in inactiveSymbols
  /\ alerts[1].instrumentToken = last.tok

\* ---- properties of the reconnect -------------------------------------------------------
\* C35: while the hook is mounted, a subscription that is open, the one of a
\* reconnect after an error included, has the hook's handlers attached, so
\* that its ticks are processed as before, and the connector is in the
\* connected state.
C35_ReconnectRestores ==
  mounted =>
    \A i \in DOMAIN es :
      es[i].readyState = "OPEN" =>
        es[i].handlers /\ conn.connectionStatus = "connected"

\* ---- properties of the subscriptions ---------------------------------------------------
\* C36: for each feed at most one subscription is open or connecting and at
\* most one reconnect timer is pending; a subscription is created only when
\* every earlier one is closed.
C36_OneSubscription ==
  /\ [](/\ Cardinality({i \in DOMAIN es :
                          es[i].readyState \in {"CONNECTING", "OPEN"}}) <= 1
        /\ Cardinality({t \in feedTimers :
                          t.kind \in {"reconnect", "upstoxReconnect"}}) <= 1)
  /\ [][Len(es') > Len(es) =>
          /\ Len(es') = Len(es) + 1
          /\ \A i \in DOMAIN es : es'[i].readyState = "CLOSED"]_vars

\* A second subscription, created after the first one was closed by an error.
C36_Witness ==
  /\ Len(es) >= 2
  /\ es[1].readyState = "CLOSED"
  /\ es[Len(es)].readyState \in {"CONNECTING", "OPEN"}

\* ---- properties of the diagnostic log --------------------------------------------------
MaxAlertsOf(feed) == IF feed = "main" THEN FEED_MAX_ALERTS ELSE UPSTOX_MAX_ALERTS

\* C37: a diagnostic is added at the front of the feed's log and the log keeps
\* the most recent ones, up to 20 for the primary feed and up to 50 for the
\* ancillary feed, so that after n diagnostics it holds min(n, MAX_ALERTS);
\* a message that adds no diagnostic leaves the log as it is.
C37_LogKeepsMostRecent ==
  /\ [](Len(feedAlerts) <= MaxAlertsOf(kind))
  /\ [][last'.op = "message" =>
          feedAlerts' =
            IF lastBatch'.raw.parsable THEN feedAlerts
            ELSE Take(<<[type |-> "data", severity |-> "medium"]>>
                        \o feedAlerts, MaxAlertsOf(kind))]_vars

\* ---- properties of the primary feed's freeze watchdog ---------------------------------
\* C38: in the primary feed the freeze watchdog fires only when the feed is
\* not yet marked frozen, that is at most once since the last batch with a
\* valid tick; the firing adds one to freezingIncidents and puts one freeze
\* diagnostic on the log, and while the feed is marked frozen no watchdog is
\* pending.
C38_OneFreezePerStalePeriod ==
  /\ []((kind = "main" /\ conn.isFrozen) =>
          \A t \in feedTimers : t.kind # "freeze")
  /\ [][(kind = "main"
           /\ conn'.freezingIncidents # conn.freezingIncidents) =>
          /\ ~conn.isFrozen /\ conn'.isFrozen
          /\ conn'.freezingIncidents = conn.freezingIncidents + 1
          /\ feedAlerts' = Take(<<[type |-> "freeze", severity |-> "high"]>>
                                  \o feedAlerts, FEED_MAX_ALERTS - 1)]_vars

\* The watchdog has fired once and more time has passed without a tick.
C38_Witness ==
  /\ kind = "main" /\ mounted
  /\ conn.isFrozen /\ conn.freezingIncidents = 1
  /\ last.op = "advance"
  /\ now >= lastBatch.at + 2 * FREEZE_THRESHOLD
  /\ Len(lastBatch.emitted) > 0

\* ---- properties of clearing the alerts -------------------------------------------------
\* C39: clearAllAlerts leaves the alert log and the inactive set empty and the
\* configurations, every monitor's baseline and history and the pending
\* timers as they were; and an alert is recorded for an instrument only when
\* none was recorded since its monitor was last armed.
C39_ClearAllKeepsMonitors ==
  [][/\ last'.op = "clearAll" =>
          /\ alerts' = << >> /\ inactiveSymbols' = {}
          /\ configurations' = configurations
          /\ MonitorsOf(symbolStates, objs)' = MonitorsOf(symbolStates, objs)
          /\ timers' = timers
     /\ \A k \in Tokens :
          alertsSinceArm'[k] > alertsSinceArm[k] => alertsSinceArm[k] = 0]_vars

====
